---- MODULE Spec2Model ----
(***************************************************************************)
(* A model of framerd's review pipeline: the pure parsing functions of     *)
(* parsing.ts (stripQuotes, extractField, isBlockComplete, parseIssueBlock,*)
(* parsePartialBuffer) and the streaming loop of callClaudeAPIStreaming    *)
(* that feeds them.                                                        *)
(*                                                                         *)
(* Text is a sequence of one-character strings.  Positions are 1-based as  *)
(* in TLA+; an "offset" is 0-based as in JavaScript, so the offset of the  *)
(* character at position p is p - 1 and s.slice(k) is SubSeq(s, k+1, ..).  *)
(***************************************************************************)
EXTENDS Integers, Sequences, FiniteSets, TLC

\* ------------------------------------------------------------------------
\* Characters
\* ------------------------------------------------------------------------

\* The characters of the regular expressions' class \s that occur in the model.
WhiteSpace == {" ", "\n", "\t"}

\* The regular expressions' class \d.
Digits == {"0", "1", "2", "3", "4", "5", "6", "7", "8", "9"}

UpperCase ==
  <<"A","B","C","D","E","F","G","H","I","J","K","L","M",
    "N","O","P","Q","R","S","T","U","V","W","X","Y","Z">>

LowerCase ==
  <<"a","b","c","d","e","f","g","h","i","j","k","l","m",
    "n","o","p","q","r","s","t","u","v","w","x","y","z">>

\* String.prototype.toLowerCase on one character; also the folding of the
\* regular expressions' "i" flag.
LowerMap ==
  [c \in {UpperCase[k] : k \in 1..26} |->
     LowerCase[CHOOSE k \in 1..26 : UpperCase[k] = c]]

LowerChar(c) == IF c \in DOMAIN LowerMap THEN LowerMap[c] ELSE c

ToLowerCase(s) == [k \in 1..Len(s) |-> LowerChar(s[k])]

IsWs(c) == c \in WhiteSpace

\* ------------------------------------------------------------------------
\* String primitives (JavaScript String methods and regex building blocks)
\* ------------------------------------------------------------------------

\* s.slice(k): s without its first k characters.
Slice(s, k) == SubSeq(s, k + 1, Len(s))

\* The first position j >= i of s whose character is not white space,
\* Len(s)+1 if there is none: where a greedy \s* starting at i stops.
RECURSIVE WsEnd(_, _)
WsEnd(s, i) ==
  IF i > Len(s) THEN Len(s) + 1
  ELSE IF IsWs(s[i]) THEN WsEnd(s, i + 1) ELSE i

\* Where a greedy \d* starting at i stops.
RECURSIVE DigitsEnd(_, _)
DigitsEnd(s, i) ==
  IF i > Len(s) THEN Len(s) + 1
  ELSE IF s[i] \in Digits THEN DigitsEnd(s, i + 1) ELSE i

\* The last position j <= i whose character is not white space, 0 if none.
RECURSIVE WsStart(_, _)
WsStart(s, i) ==
  IF i < 1 THEN 0
  ELSE IF IsWs(s[i]) THEN WsStart(s, i - 1) ELSE i

\* String.prototype.trim
Trim(s) ==
  LET a == WsEnd(s, 1)
      b == WsStart(s, Len(s))
  IN IF a > b THEN <<>> ELSE SubSeq(s, a, b)

\* String.prototype.startsWith / endsWith for a one-character argument.
StartsWith(s, c) == Len(s) > 0 /\ s[1] = c

EndsWith(s, c) == Len(s) > 0 /\ s[Len(s)] = c

\* The literal lit (given in lower case) matches s at position i under the
\* "i" flag.
MatchAt(s, i, lit) ==
  /\ i >= 1
  /\ i + Len(lit) - 1 <= Len(s)
  /\ \A k \in 1..Len(lit) : LowerChar(s[i + k - 1]) = lit[k]

\* The least element of a non-empty set of positions.
Least(S) == CHOOSE x \in S : \A y \in S : x <= y

\* The first position >= from where lit matches, 0 if none.
IndexOfCI(s, lit, from) ==
  LET hits == {i \in from..(Len(s) - Len(lit) + 1) : MatchAt(s, i, lit)}
  IN IF hits = {} THEN 0 ELSE Least(hits)

\* String.prototype.indexOf (case-sensitive): the 0-based offset of the first
\* occurrence of t in s, or -1.
IndexOf(s, t) ==
  LET hits == {i \in 1..(Len(s) - Len(t) + 1) :
                 \A k \in 1..Len(t) : s[i + k - 1] = t[k]}
  IN IF hits = {} THEN -1 ELSE Least(hits) - 1

\* ------------------------------------------------------------------------
\* parsing.ts
\* ------------------------------------------------------------------------

\* An optional value: string | null, ParsedSuggestion | null.
Null == [ok |-> FALSE, v |-> <<>>]

Some(x) == [ok |-> TRUE, v |-> x]

\* const quoteChars = ['"', '"', '"', "'", "'", "'"]  (as the source has it)
quoteChars == <<"\"", "\"", "\"", "'", "'", "'">>

\* A faulty variant of StripQuotes: every layer of quotes is removed.
RECURSIVE StripQuotes_AllLayers(_)
StripQuotes_AllLayers(text) ==
  LET t == Trim(text)
  IN IF Len(t) > 1 /\ t[1] = t[Len(t)] /\ t[1] \in {"\"", "'"}
     THEN StripQuotes_AllLayers(SubSeq(t, 2, Len(t) - 1))
     ELSE t

\* stripQuotes: trim; for the first quote of quoteChars that the text both
\* starts and ends with (length > 1), drop that pair and trim again.
StripQuotes(text) ==
  LET t == Trim(text)
      paired == {k \in 1..Len(quoteChars) :
                   StartsWith(t, quoteChars[k]) /\ EndsWith(t, quoteChars[k])
                   /\ Len(t) > 1}
  IN IF paired = {} THEN t ELSE Trim(SubSeq(t, 2, Len(t) - 1))

\* extractField(block, fieldName, stopAt) with
\*   pattern = /fieldName:\s*(.+?)\s*(?=stopAt|$)/is   (stopAt given)
\*   pattern = /fieldName:\s*(.+?)\s*$/is              (stopAt undefined: <<>>)
\* fieldName and stopAt are given in lower case (the "i" flag folds case).
\* The match is the leftmost "fieldName:" that has at least one character after
\* it.  The greedy \s* skips the white space after the colon (giving one of
\* them back to (.+?) when nothing else follows); the lazy group then runs to
\* the first place, at least one character on, from which optional white space
\* leads to stopAt or to the end of the block.  The white space the trailing
\* \s* takes is white space stripQuotes would trim anyway.
ExtractField(block, fieldName, stopAt) ==
  LET name == fieldName \o <<":">>
      i == IndexOfCI(block, name, 1)
      r == i + Len(name)
      a == WsEnd(block, r)
      stop == IF stopAt = <<>> THEN 0 ELSE IndexOfCI(block, stopAt, a + 1)
      j == IF stop = 0 THEN Len(block) + 1 ELSE stop
  IN IF i = 0 \/ r > Len(block) THEN Null
     ELSE IF a > Len(block)
       THEN Some(StripQuotes(SubSeq(block, Len(block), Len(block))))
     ELSE Some(StripQuotes(SubSeq(block, a, j - 1)))

\* /NAME:/i.test(block)
HasField(block, name) == IndexOfCI(block, name, 1) # 0

\* A faulty variant of FixValueComplete: the quote rule is left out, as before
\* the fix of the truncated-rewrite bug.
FixValueComplete_NoQuoteRule(fixValue) == Len(fixValue) > 0

\* isBlockComplete, lines 346-356: a FIX value that starts with a quote must
\* end with the same quote and be longer than one character; any other value
\* is complete when it has some content.
FixValueComplete(fixValue) ==
  LET opening == {k \in 1..Len(quoteChars) : StartsWith(fixValue, quoteChars[k])}
  IN IF opening # {}
     THEN EndsWith(fixValue, quoteChars[Least(opening)]) /\ Len(fixValue) > 1
     ELSE Len(fixValue) > 0

\* isBlockComplete: all five field names present, and
\* fixMatch = block.match(/FIX:\s*(.+?)$/is): the leftmost "FIX:" followed by
\* at least one character; group 1 runs to the end of the block.
IsBlockComplete(block) ==
  LET i == IndexOfCI(block, <<"f","i","x",":">>, 1)
      r == i + 4
  IN /\ HasField(block, <<"e","x","c","e","r","p","t",":">>)
     /\ HasField(block, <<"c","a","t","e","g","o","r","y",":">>)
     /\ HasField(block, <<"s","e","v","e","r","i","t","y",":">>)
     /\ HasField(block, <<"p","r","o","b","l","e","m",":">>)
     /\ i # 0
     /\ r <= Len(block)
     /\ FixValueComplete(Trim(SubSeq(block, r, Len(block))))

\* A faulty variant of ValidSeverity: the severity token is not validated.
ValidSeverity_Any(severity) == TRUE

\* severity !== 'high' && severity !== 'moderate' && severity !== 'low'
ValidSeverity(severity) ==
  severity \in {<<"h","i","g","h">>, <<"m","o","d","e","r","a","t","e">>,
                <<"l","o","w">>}

\* fix.replace(/---\s*$/, '').trim(): the leftmost "---" that only white space
\* follows is cut off with what follows it.
CleanFix(fix) ==
  LET hits == {i \in 1..(Len(fix) - 2) :
                 /\ MatchAt(fix, i, <<"-","-","-">>)
                 /\ WsEnd(fix, i + 3) = Len(fix) + 1}
  IN IF hits = {} THEN Trim(fix) ELSE Trim(SubSeq(fix, 1, Least(hits) - 1))

\* parseIssueBlock
ParseIssueBlock(block) ==
  LET excerpt == ExtractField(block, <<"e","x","c","e","r","p","t">>,
                              <<"c","a","t","e","g","o","r","y",":">>)
      category == ExtractField(block, <<"c","a","t","e","g","o","r","y">>,
                               <<"s","e","v","e","r","i","t","y",":">>)
      severityStr == ExtractField(block, <<"s","e","v","e","r","i","t","y">>,
                                  <<"p","r","o","b","l","e","m",":">>)
      problem == ExtractField(block, <<"p","r","o","b","l","e","m">>,
                              <<"f","i","x",":">>)
      fix == ExtractField(block, <<"f","i","x">>, <<>>)
      falsy(x) == ~x.ok \/ x.v = <<>>
      severity == ToLowerCase(severityStr.v)
      cleanFix == IF falsy(fix) THEN <<>> ELSE CleanFix(fix.v)
  IN IF falsy(excerpt) \/ falsy(category) \/ falsy(severityStr) \/ falsy(problem)
     THEN Null
     ELSE IF ~ValidSeverity(severity) THEN Null
     ELSE Some([comment |-> problem.v,
                target_excerpt |-> excerpt.v,
                category |-> category.v,
                severity |-> severity,
                explanation |-> problem.v,
                rewrite |-> cleanFix])

\* The lookahead ---\s*\n at position p.
DelimAt(s, p) ==
  /\ MatchAt(s, p, <<"-","-","-">>)
  /\ \E j \in (p + 3)..(WsEnd(s, p + 3) - 1) : s[j] = "\n"

\* A faulty variant of HeaderAt: the ordinal is one digit, \d for \d+.
HeaderAt_OneDigit(s, i) ==
  LET e == WsEnd(s, i + 3)
      b == WsEnd(s, e + 5)
      c == IF DigitsEnd(s, b) > b THEN b + 1 ELSE b
      d == WsEnd(s, c)
      nls == {j \in c..(d - 1) : s[j] = "\n"}
  IN IF /\ MatchAt(s, i, <<"-","-","-">>)
        /\ e > i + 3
        /\ s[e - 1] = "\n"
        /\ MatchAt(s, e, <<"i","s","s","u","e">>)
        /\ b > e + 5
        /\ c > b
        /\ nls # {}
     THEN (CHOOSE j \in nls : \A k \in nls : k <= j) + 1
     ELSE 0

\* The head of issuePattern, ---\s*\nISSUE\s+(\d+)\s*\n, tried at position i:
\* the position where the block body (group 2) starts, 0 when there is no
\* match at i.  The white space after "---" must end in the newline that
\* "ISSUE" follows; the body starts after the last newline of the white space
\* that follows the ordinal.
HeaderAt(s, i) ==
  LET e == WsEnd(s, i + 3)
      b == WsEnd(s, e + 5)
      c == DigitsEnd(s, b)
      d == WsEnd(s, c)
      nls == {j \in c..(d - 1) : s[j] = "\n"}
  IN IF /\ MatchAt(s, i, <<"-","-","-">>)
        /\ e > i + 3
        /\ s[e - 1] = "\n"
        /\ MatchAt(s, e, <<"i","s","s","u","e">>)
        /\ b > e + 5
        /\ c > b
        /\ nls # {}
     THEN (CHOOSE j \in nls : \A k \in nls : k <= j) + 1
     ELSE 0

\* A faulty variant of matchAll: the body is greedy and runs to the last
\* ---\s*\n of the buffer.
RECURSIVE MatchAllFrom_Greedy(_, _)
MatchAllFrom_Greedy(s, from) ==
  LET heads == {i \in from..(Len(s) - 2) : HeaderAt(s, i) # 0}
  IN IF heads = {} THEN <<>>
     ELSE LET i == Least(heads)
              bodyStart == HeaderAt(s, i)
              delims == {p \in bodyStart..(Len(s) - 2) : DelimAt(s, p)}
              end == IF delims = {} THEN Len(s)
                     ELSE (CHOOSE p \in delims : \A q \in delims : q <= p) - 1
          IN <<[index |-> i - 1, bodyStart |-> bodyStart, end |-> end]>>
             \o MatchAllFrom_Greedy(s, end + 1)

\* [...buffer.matchAll(issuePattern)] searched from position `from`: each match
\* as [index: the offset of its "---", bodyStart: the position of the first
\* character of group 2, end: index + match[0].length].  The lazy body ends at
\* the first ---\s*\n or at the end of the buffer.
RECURSIVE MatchAllFrom(_, _)
MatchAllFrom(s, from) ==
  LET heads == {i \in from..(Len(s) - 2) : HeaderAt(s, i) # 0}
  IN IF heads = {} THEN <<>>
     ELSE LET i == Least(heads)
              bodyStart == HeaderAt(s, i)
              delims == {p \in bodyStart..(Len(s) - 2) : DelimAt(s, p)}
              end == IF delims = {} THEN Len(s) ELSE Least(delims) - 1
          IN <<[index |-> i - 1, bodyStart |-> bodyStart, end |-> end]>>
             \o MatchAllFrom(s, end + 1)

MatchAll(s) == MatchAllFrom(s, 1)

\* match[2]
BlockOf(s, match) == SubSeq(s, match.bodyStart, match.end)

\* A faulty variant of HoldBack: the last block is parsed whether or not it is
\* complete.
HoldBack_Never(block, isFollowedByAnother) == FALSE

\* parsePartialBuffer, lines 461-466: the last block is held back unless it is
\* complete.
HoldBack(block, isFollowedByAnother) ==
  ~isFollowedByAnother /\ ~IsBlockComplete(block)

\* A faulty variant of ConsumedTo: the buffer is consumed only up to the start
\* of the block just parsed.
ConsumedTo_BlockStart(match) == match.index

\* lastCompleteIndex = match.index + match[0].length, line 471
ConsumedTo(match) == match.end

\* A faulty variant of ParseLoop: a block that yields no suggestion ends the
\* loop.
RECURSIVE ParseLoop_StopAtMalformed(_, _, _, _)
ParseLoop_StopAtMalformed(buffer, matches, i, acc) ==
  IF i > Len(matches) THEN acc
  ELSE LET match == matches[i]
           block == BlockOf(buffer, match)
           isFollowedByAnother == i < Len(matches)
           suggestion == ParseIssueBlock(block)
       IN IF HoldBack(block, isFollowedByAnother) \/ ~suggestion.ok THEN acc
          ELSE ParseLoop_StopAtMalformed(buffer, matches, i + 1,
                 [parsed |-> Append(acc.parsed, suggestion.v),
                  lastCompleteIndex |-> ConsumedTo(match),
                  origins |-> Append(acc.origins, match.index)])

\* parsePartialBuffer, the loop of lines 454-473 from match i on.  acc carries
\* suggestions (parsed), lastCompleteIndex, and for each suggestion pushed the
\* match.index it came from (origins, kept for the properties only).
RECURSIVE ParseLoop(_, _, _, _)
ParseLoop(buffer, matches, i, acc) ==
  IF i > Len(matches) THEN acc
  ELSE LET match == matches[i]
           block == BlockOf(buffer, match)
           isFollowedByAnother == i < Len(matches)
           suggestion == ParseIssueBlock(block)
       IN IF HoldBack(block, isFollowedByAnother) THEN acc
          ELSE ParseLoop(buffer, matches, i + 1,
                 IF suggestion.ok
                 THEN [parsed |-> Append(acc.parsed, suggestion.v),
                       lastCompleteIndex |-> ConsumedTo(match),
                       origins |-> Append(acc.origins, match.index)]
                 ELSE acc)

\* A faulty variant of Remainder: nothing is cut off the buffer.
Remainder_KeepAll(buffer, lastCompleteIndex) == buffer

\* buffer.slice(lastCompleteIndex), line 477
Remainder(buffer, lastCompleteIndex) == Slice(buffer, lastCompleteIndex)

\* parsePartialBuffer
ParsePartialBuffer(buffer) ==
  LET acc == ParseLoop(buffer, MatchAll(buffer), 1,
                       [parsed |-> <<>>, lastCompleteIndex |-> 0, origins |-> <<>>])
  IN [parsed |-> acc.parsed,
      remainder |-> Remainder(buffer, acc.lastCompleteIndex),
      origins |-> acc.origins]

\* parseCompleteIssueBlocks: every block is parsed only if it is complete.
RECURSIVE CompleteLoop(_, _, _)
CompleteLoop(text, matches, i) ==
  IF i > Len(matches) THEN <<>>
  ELSE LET block == BlockOf(text, matches[i])
           suggestion == ParseIssueBlock(block)
       IN (IF IsBlockComplete(block) /\ suggestion.ok
           THEN <<suggestion.v>> ELSE <<>>)
          \o CompleteLoop(text, matches, i + 1)

ParseCompleteIssueBlocks(text) == CompleteLoop(text, MatchAll(text), 1)

\* ------------------------------------------------------------------------
\* Response texts fed to the stream
\* ------------------------------------------------------------------------

\* ---\nISSUE <n>\n
Header(n) == <<"-","-","-","\n","I","S","S","U","E"," ",n,"\n">>

\* EXCERPT: "<x>"
ExcerptLine(x) ==
  <<"E","X","C","E","R","P","T",":"," ","\"",x,"\"","\n">>

\* EXCERPT: ""
EmptyExcerptLine ==
  <<"E","X","C","E","R","P","T",":"," ","\"","\"","\n">>

\* CATEGORY: g
CategoryLine ==
  <<"C","A","T","E","G","O","R","Y",":"," ","g","\n">>

\* SEVERITY: Low
SeverityLine ==
  <<"S","E","V","E","R","I","T","Y",":"," ","L","o","w","\n">>

\* SEVERITY: bad
BadSeverityLine ==
  <<"S","E","V","E","R","I","T","Y",":"," ","b","a","d","\n">>

\* PROBLEM: p
ProblemLine ==
  <<"P","R","O","B","L","E","M",":"," ","p","\n">>

\* FIX: bc
FixLine ==
  <<"F","I","X",":"," ","b","c","\n">>

\* FIX: "c d"
QuotedFixLine ==
  <<"F","I","X",":"," ","\"","c"," ","d","\"","\n">>

\* FIX: followed by a space
EmptyFixLine ==
  <<"F","I","X",":"," ","\n">>

\* The block of the end-to-end scenario
ScenarioStream ==
  <<"-","-","-","\n","I","S","S","U","E"," ","1","\n","E","X","C","E","R",
    "P","T",":"," ","\"","T","h","e"," ","c","a","t"," ","s","a","t"," ",
    "o","n"," ","m","a","t","\"","\n","C","A","T","E","G","O","R","Y",":",
    " ","g","r","a","m","m","a","r","\n","S","E","V","E","R","I","T","Y",
    ":"," ","h","i","g","h","\n","P","R","O","B","L","E","M",":"," ","M",
    "i","s","s","i","n","g"," ","a","r","t","i","c","l","e","\n","F","I",
    "X",":"," ","T","h","e"," ","c","a","t"," ","s","a","t"," ","o","n"," ",
    "t","h","e"," ","m","a","t">>

\* The document of the end-to-end scenario
ScenarioDocument ==
  <<"T","h","e"," ","c","a","t"," ","s","a","t"," ","o","n"," ","m","a","t",
    ".">>

ScenarioExcerpt ==
  <<"T","h","e"," ","c","a","t"," ","s","a","t"," ","o","n"," ","m","a","t">>

ScenarioRewrite ==
  <<"T","h","e"," ","c","a","t"," ","s","a","t"," ","o","n"," ","t","h","e",
    " ","m","a","t">>

\* The synthetic terminator of the final parse, '\n---'
Terminator ==
  <<"\n","-","-","-">>


\* The ordinal and the excerpt of the k-th block of a response.
Ordinal == <<"1", "2", "3">>

ExcerptOf == <<"a", "b", "c">>

\* The well-formed kinds of block: an unquoted, a quoted and an empty FIX.
WellFormedKinds == {"plain", "quoted", "emptyFix"}

\* The malformed kinds: a required field missing or empty, or a severity that
\* is none of high, moderate, low.
MalformedKinds ==
  {"noExcerpt", "emptyExcerpt", "noCategory", "noSeverity", "badSeverity",
   "noProblem", "noFix"}

\* The text of the k-th block of a response, of the given kind.
BlockText(kind, k) ==
  Header(Ordinal[k])
  \o (CASE kind = "noExcerpt" -> <<>>
        [] kind = "emptyExcerpt" -> EmptyExcerptLine
        [] OTHER -> ExcerptLine(ExcerptOf[k]))
  \o (IF kind = "noCategory" THEN <<>> ELSE CategoryLine)
  \o (CASE kind = "noSeverity" -> <<>>
        [] kind = "badSeverity" -> BadSeverityLine
        [] OTHER -> SeverityLine)
  \o (IF kind = "noProblem" THEN <<>> ELSE ProblemLine)
  \o (CASE kind = "noFix" -> <<>>
        [] kind = "quoted" -> QuotedFixLine
        [] kind = "emptyFix" -> EmptyFixLine
        [] OTHER -> FixLine)

RECURSIVE BlocksText(_, _)
BlocksText(script, k) ==
  IF k > Len(script) THEN <<>>
  ELSE BlockText(script[k], k) \o BlocksText(script, k + 1)

\* The response of a script (a sequence of block kinds): its blocks one after
\* the other, the last line without its line end.
ResponseOf(script) ==
  LET t == BlocksText(script, 1) IN SubSeq(t, 1, Len(t) - 1)

\* The responses the model streams.
Scripts ==
  {<<"plain">>, <<"quoted", "plain">>, <<"quoted", "quoted">>,
   <<"emptyFix", "quoted">>, <<"quoted", "emptyFix">>,
   <<"badSeverity", "quoted">>, <<"quoted", "badSeverity">>,
   <<"noFix", "quoted">>, <<"quoted", "noFix">>,
   <<"noCategory", "quoted">>, <<"emptyExcerpt", "quoted">>,
   <<"noExcerpt", "quoted">>, <<"noSeverity", "quoted">>,
   <<"noProblem", "quoted">>,
   <<"quoted", "noCategory", "quoted">>, <<"quoted", "noFix", "plain">>}

\* The largest fragment the stream delivers, short of the whole response.
MaxChunk == 3

\* ------------------------------------------------------------------------
\* Reviews of a document
\* ------------------------------------------------------------------------

\* The text of the reviewed document.
ReviewDocument ==
  <<"S","h","e"," ","w","a","s"," ","t","r","y","i","n","g"," ","n","o",
    "t"," ","t","o"," ","s","q","u","i","n","t"," ","t","o","o"," ","m",
    "u","c","h"," ","i","n"," ","t","h","e"," ","l","i","g","h","t",".">>

\* The kinds of block of the responses to a review: per kind the excerpt, the
\* category, the severity and the rewrite of the block.
ReviewKinds ==
  [first |->
     [excerpt |-> <<"S","h","e"," ","w","a","s">>,
      category |-> <<"g","r","a","m","m","a","r">>,
      severity |-> <<"h","i","g","h">>,
      fix |-> <<"S","h","e"," ","i","s">>],
   overlapping |->
     [excerpt |-> <<"w","a","s"," ","t","r","y","i","n","g">>,
      category |-> <<"g","r","a","m","m","a","r">>,
      severity |-> <<"m","o","d","e","r","a","t","e">>,
      fix |-> <<"t","r","i","e","d">>],
   apart |->
     [excerpt |-> <<"l","i","g","h","t">>,
      category |-> <<"g","r","a","m","m","a","r">>,
      severity |-> <<"l","o","w">>,
      fix |-> <<"d","a","r","k">>],
   unlocated |->
     [excerpt |-> <<"z","z">>,
      category |-> <<"g","r","a","m","m","a","r">>,
      severity |-> <<"h","i","g","h">>,
      fix |-> <<"y">>],
   fuzzy |->
     [excerpt |-> <<"t","r","y","i","n","g"," ","n","o","t"," ","s","q","u","i","n",
        "t"," ","t","o","o"," ","m","u","c","h">>,
      category |-> <<"g","r","a","m","m","a","r">>,
      severity |-> <<"m","o","d","e","r","a","t","e">>,
      fix |-> <<"t","r","y","i","n","g"," ","n","o","t"," ","t","o"," ","s","q",
        "u","i","n","t">>],
   alternatives |->
     [excerpt |-> <<"s","q","u","i","n","t">>,
      category |-> <<"g","r","a","m","m","a","r">>,
      severity |-> <<"h","i","g","h">>,
      fix |-> <<"b","l","i","n","k"," ","o","r"," ","s","t","a","r","e">>],
   judgment |->
     [excerpt |-> <<"t","o","o"," ","m","u","c","h">>,
      category |-> <<"W","o","r","d","_","C","h","o","i","c","e">>,
      severity |-> <<"m","o","d","e","r","a","t","e">>,
      fix |-> <<"t","o","o">>],
   deletion |->
     [excerpt |-> <<"i","n"," ","t","h","e">>,
      category |-> <<"g","r","a","m","m","a","r">>,
      severity |-> <<"l","o","w">>,
      fix |-> <<>>],
   after |->
     [excerpt |-> <<"t","r","y","i","n","g"," ","n","o","t">>,
      category |-> <<"g","r","a","m","m","a","r">>,
      severity |-> <<"l","o","w">>,
      fix |-> <<"t","r","i","e","d"," ","n","o","t">>],
   much |->
     [excerpt |-> <<"m","u","c","h"," ","i","n">>,
      category |-> <<"g","r","a","m","m","a","r">>,
      severity |-> <<"h","i","g","h">>,
      fix |-> <<"l","o","n","g"," ","i","n">>]]

\* A block in the response format, its excerpt and its rewrite in quotes.
IssueBlock(n, excerpt, category, severity, fix) ==
  Header(n)
  \o <<"E","X","C","E","R","P","T",":"," ","\"">> \o excerpt \o <<"\"","\n">>
  \o <<"C","A","T","E","G","O","R","Y",":"," ">> \o category \o <<"\n">>
  \o <<"S","E","V","E","R","I","T","Y",":"," ">> \o severity \o <<"\n">>
  \o ProblemLine
  \o <<"F","I","X",":"," ","\"">> \o fix \o <<"\"","\n">>

RECURSIVE ReviewBlocksText(_, _)
ReviewBlocksText(kinds, k) ==
  IF k > Len(kinds) THEN <<>>
  ELSE LET b == ReviewKinds[kinds[k]]
       IN IssueBlock(Ordinal[k], b.excerpt, b.category, b.severity, b.fix)
          \o ReviewBlocksText(kinds, k + 1)

\* The response to a review: its blocks one after the other, the last line
\* without its line end.
ReviewResponseOf(kinds) ==
  LET t == ReviewBlocksText(kinds, 1) IN SubSeq(t, 1, Len(t) - 1)

\* The responses the reviews receive.
ReviewScripts ==
  {<<"first", "overlapping", "apart">>, <<"overlapping", "first">>,
   <<"first", "unlocated", "apart">>, <<"fuzzy", "first">>,
   <<"alternatives", "judgment", "first">>, <<"deletion", "apart">>,
   <<"first", "overlapping", "alternatives">>,
   <<"first", "overlapping", "after">>, <<"judgment", "much">>,
   <<"unlocated", "first">>}

\* The most reviews of one session.
MaxReviews == 2

\* The most fragments of equal size a review's response is cut into.
MaxParts == 3

\* ------------------------------------------------------------------------
\* parsing.ts: isQuickFixable;  excerpt-matching.ts: findExcerptPartialMatch
\* ------------------------------------------------------------------------

\* suggestion.rewrite.length > 100
MaxRewriteLength == 100

hintOnlyCategories ==
  {<<"c","o","n","s","i","s","t","e","n","c","y">>,
   <<"s","t","r","u","c","t","u","r","e">>,
   <<"w","o","r","d","_","c","h","o","i","c","e">>}

\* A faulty variant of IsQuickFixable: a rewrite of exactly 100 characters is
\* already too long.
IsQuickFixable_Strict(suggestion) ==
  /\ Trim(suggestion.rewrite) # <<>>
  /\ IndexOf(suggestion.rewrite, <<" ","o","r"," ">>) = -1
  /\ ~(Len(suggestion.rewrite) >= MaxRewriteLength)
  /\ ToLowerCase(suggestion.category) \notin hintOnlyCategories

\* isQuickFixable: the four tests, in the order of the code.
IsQuickFixable(suggestion) ==
  IF suggestion.rewrite = <<>> \/ Trim(suggestion.rewrite) = <<>> THEN FALSE
  ELSE IF IndexOf(suggestion.rewrite, <<" ","o","r"," ">>) # -1 THEN FALSE
  ELSE IF Len(suggestion.rewrite) > MaxRewriteLength THEN FALSE
  ELSE IF ToLowerCase(suggestion.category) \in hintOnlyCategories THEN FALSE
  ELSE TRUE

\* excerpt.length < 20: no partial matching on short excerpts
MinPartialLength == 20

\* Math.min(50, ...): the longest prefix and suffix compared
MaxAnchor == 50

\* const searchWindow = 50
searchWindow == 50

Max(a, b) == IF a > b THEN a ELSE b

Min(a, b) == IF a < b THEN a ELSE b

\* text.substring(from, from + n) === t, for a 0-based from >= 0 and a
\* non-empty t of n characters.
SubstringIs(text, from, t) ==
  /\ from + Len(t) <= Len(text)
  /\ \A k \in 1..Len(t) : text[from + k] = t[k]

\* A faulty variant of MatchLength: half of the excerpt is the anchor.
MatchLength_Half(length) == Min(MaxAnchor, length \div 2)

\* Math.min(50, Math.floor(excerpt.length * 0.25))
MatchLength(length) == Min(MaxAnchor, length \div 4)

\* A faulty variant of SuffixWindow: the suffix is only looked for where the
\* excerpt's length puts it.
SuffixWindow_Exact(expected) == {expected}

\* The places where the suffix is looked for: expectedSuffixStart + offset for
\* offset from -searchWindow to searchWindow, those below 0 left out.
SuffixWindow(expected) ==
  Max(0, expected - searchWindow)..(expected + searchWindow)

\* A faulty variant of findExcerptPartialMatch: only the first occurrence of
\* the prefix is tried.
FindExcerptPartialMatch_FirstPrefix(text, excerpt) ==
  IF Len(excerpt) < MinPartialLength THEN Null
  ELSE
    LET matchLength == MatchLength(Len(excerpt))
        prefix == SubSeq(excerpt, 1, matchLength)
        suffix == SubSeq(excerpt, Len(excerpt) - matchLength + 1, Len(excerpt))
        expected(p) == p + Len(excerpt) - matchLength
        suffixAt(p) ==
          {q \in SuffixWindow(expected(p)) : SubstringIs(text, q, suffix)}
        occurs == {p \in 0..(Len(text) - matchLength) :
                     SubstringIs(text, p, prefix)}
    IN IF occurs = {} \/ suffixAt(Least(occurs)) = {} THEN Null
       ELSE LET prefixIndex == Least(occurs)
                suffixIndex == Least(suffixAt(prefixIndex))
            IN Some([index |-> prefixIndex,
                     length |-> suffixIndex + matchLength - prefixIndex])

\* findExcerptPartialMatch: the first occurrence of the excerpt's prefix for
\* which the suffix is found within searchWindow of where it is expected, with
\* the leftmost such place of the suffix; Null if there is none.
FindExcerptPartialMatch(text, excerpt) ==
  IF Len(excerpt) < MinPartialLength THEN Null
  ELSE
    LET matchLength == MatchLength(Len(excerpt))
        prefix == SubSeq(excerpt, 1, matchLength)
        suffix == SubSeq(excerpt, Len(excerpt) - matchLength + 1, Len(excerpt))
        expected(p) == p + Len(excerpt) - matchLength
        suffixAt(p) ==
          {q \in SuffixWindow(expected(p)) : SubstringIs(text, q, suffix)}
        found == {p \in 0..(Len(text) - matchLength) :
                    SubstringIs(text, p, prefix) /\ suffixAt(p) # {}}
    IN IF found = {} THEN Null
       ELSE LET prefixIndex == Least(found)
                suffixIndex == Least(suffixAt(prefixIndex))
            IN Some([index |-> prefixIndex,
                     length |-> suffixIndex + matchLength - prefixIndex])

\* ------------------------------------------------------------------------
\* extension.ts: addSuggestionAsDiagnostic
\* ------------------------------------------------------------------------

\* A vscode.Range, by the offsets of its two ends in the reviewed text
\* (document.positionAt keeps the order of offsets).
Range(start, end) == [start |-> start, end |-> end]

\* new vscode.Range(0, 0, 0, 0)
TopOfDocument == Range(0, 0)

\* vscode.Range.intersection(other) !== undefined: the later start is not
\* after the earlier end (ranges that only touch do intersect).
Intersects(a, b) == ~(Max(a.start, b.start) > Min(a.end, b.end))

\* A faulty variant of Overlaps: the committed ranges are not consulted.
Overlaps_Never(ranges, range) == FALSE

\* usedRanges.some(usedRange => usedRange.intersection(range) !== undefined)
Overlaps(ranges, range) ==
  \E k \in 1..Len(ranges) : Intersects(ranges[k], range)

\* The severity of a diagnostic that carries a quick fix.
FixSeverity(severity) ==
  IF severity = <<"h","i","g","h">> THEN "Error"
  ELSE IF severity = <<"m","o","d","e","r","a","t","e">> THEN "Warning"
  ELSE "Information"

\* The user's dictionary (framerd.dictionary), at its default.
dictionary == <<>>

\* The dictionary filter: a spelling suggestion about a word of the user's
\* dictionary is skipped (extractMisspelledWord takes the word from the
\* comment; here: the comment names a word of the dictionary).
Filtered(suggestion) ==
  /\ Len(dictionary) > 0
  /\ suggestion.category = <<"s","p","e","l","l","i","n","g">>
  /\ \E k \in 1..Len(dictionary) : IndexOf(suggestion.comment, dictionary[k]) # -1

\* A faulty variant of ExactIndex: an excerpt that is not found counts as found
\* at the start of the text.
ExactIndex_OrStart(text, excerpt) == Max(0, IndexOf(text, excerpt))

\* text.indexOf(suggestion.target_excerpt)
ExactIndex(text, excerpt) == IndexOf(text, excerpt)

\* A faulty variant of DisplayRange: every diagnostic without a quick fix goes
\* to the top of the document.
DisplayRange_Top(found, range) == TopOfDocument

\* The range of a diagnostic without a quick fix: where the excerpt was found,
\* or the top of the document.
DisplayRange(found, range) == IF found THEN range ELSE TopOfDocument

\* new vscode.Diagnostic(range, suggestion.comment, severity), with its code
\* (0: none) and, as history, the suggestion it was made for.
Diagnostic(range, suggestion, severity, code) ==
  [range |-> range, message |-> suggestion.comment, severity |-> severity,
   code |-> code, suggestion |-> suggestion]

\* suggestionMap.set(id, suggestion)
MapSet(map, id, suggestion) ==
  [k \in DOMAIN map \cup {id} |-> IF k = id THEN suggestion ELSE map[k]]

\* A faulty variant of addSuggestionAsDiagnostic: the range of a suggestion
\* that is found is committed whether or not it gets a quick fix.
AddSuggestionAsDiagnostic_CommitsAll(suggestion, text, st) ==
  IF Filtered(suggestion) THEN st
  ELSE
    LET index == ExactIndex(text, suggestion.target_excerpt)
        found == suggestion.target_excerpt # <<>> /\ index # -1
        range == Range(index, index + Len(suggestion.target_excerpt))
        canQuickFix == IsQuickFixable(suggestion) /\ ~Overlaps(st.usedRanges, range)
        id == st.diagnosticCounter + 1
    IN IF found /\ canQuickFix
       THEN [diagnostics |->
               Append(st.diagnostics,
                      Diagnostic(range, suggestion,
                                 FixSeverity(suggestion.severity), id)),
             usedRanges |-> Append(st.usedRanges, range),
             diagnosticCounter |-> id,
             suggestionMap |-> MapSet(st.suggestionMap, id, suggestion),
             ids |-> Append(st.ids, id)]
       ELSE [st EXCEPT
               !.diagnostics =
                 Append(@, Diagnostic(DisplayRange(found, range), suggestion,
                                      "Hint", 0)),
               !.usedRanges = IF found THEN Append(@, range) ELSE @]

\* addSuggestionAsDiagnostic on the shared state st = [diagnostics, usedRanges,
\* diagnosticCounter, suggestionMap, ids]; ids is the history of the
\* identifiers given out.
AddSuggestionAsDiagnostic(suggestion, text, st) ==
  IF Filtered(suggestion) THEN st
  ELSE
    LET index == ExactIndex(text, suggestion.target_excerpt)
        found == suggestion.target_excerpt # <<>> /\ index # -1
        range == Range(index, index + Len(suggestion.target_excerpt))
        canQuickFix == IsQuickFixable(suggestion) /\ ~Overlaps(st.usedRanges, range)
        id == st.diagnosticCounter + 1
    IN IF found /\ canQuickFix
       THEN [diagnostics |->
               Append(st.diagnostics,
                      Diagnostic(range, suggestion,
                                 FixSeverity(suggestion.severity), id)),
             usedRanges |-> Append(st.usedRanges, range),
             diagnosticCounter |-> id,
             suggestionMap |-> MapSet(st.suggestionMap, id, suggestion),
             ids |-> Append(st.ids, id)]
       ELSE [st EXCEPT !.diagnostics =
               Append(@, Diagnostic(DisplayRange(found, range), suggestion,
                                    "Hint", 0))]

\* A faulty variant of AssignAll: the suggestions of one parse are handed over
\* last first.
RECURSIVE AssignAll_LastFirst(_, _, _)
AssignAll_LastFirst(parsed, text, st) ==
  IF parsed = <<>> THEN st
  ELSE AssignAll_LastFirst(SubSeq(parsed, 1, Len(parsed) - 1), text,
         AddSuggestionAsDiagnostic(parsed[Len(parsed)], text, st))

\* for (const suggestion of parsed) onSuggestion(suggestion)
RECURSIVE AssignAll(_, _, _)
AssignAll(parsed, text, st) ==
  IF parsed = <<>> THEN st
  ELSE AssignAll(Tail(parsed), text,
                 AddSuggestionAsDiagnostic(Head(parsed), text, st))

\* ------------------------------------------------------------------------
\* callClaudeAPIStreaming
\* ------------------------------------------------------------------------

VARIABLES
  script,          \* the kinds of the blocks of the response (fixed per run)
  stream,          \* the response text the service will deliver
  document,        \* the text of the reviewed document
  pos,             \* how many characters of the response were delivered
  buffer,          \* callClaudeAPIStreaming's buffer
  out,             \* the suggestions handed to onSuggestion, in order
  pc,              \* "streaming", "done" (returned) or "aborted" (threw)
  abortRequested,  \* what onAbort() returns
  charsPerChunk,   \* 0: the service cuts the response where it likes; n > 0:
                   \* every fragment has n characters (MockAnthropicStream)
  base,            \* the offset in stream of the first character of buffer
  emitted,         \* per suggestion of out, the offset in stream of its block
  last,            \* the latest parsePartialBuffer call: its argument, its
                   \* result, the blocks of its buffer (matches), whether it
                   \* was the final parse, the offset in
                   \* stream of the last block if the call held it back (held)
                   \* and the same for the call before (prev); -1 for none
  diagnosticCollection,  \* the diagnostics shown on the document, in order
  suggestionMap,         \* identifier -> suggestion, for the quick fixes
  usedRanges,            \* the ranges committed to quick fixes
  diagnosticCounter,     \* the latest identifier given out
  assignedIds,           \* the identifiers given out in this review, in order
  isStreamingActive,     \* a review is in progress
  notice,                \* the message that ended the review: "none",
                         \* "complete", "cancelled" or "error"
  review,                \* the number of the review, from 1
  call                   \* a call of one of the pure functions from outside the
                         \* review: the function, its arguments, and its
                         \* result once it has returned

\* What addSuggestionAsDiagnostic reads and writes.
shared ==
  <<diagnosticCollection, suggestionMap, usedRanges, diagnosticCounter,
    assignedIds>>

vars ==
  <<script, stream, document, pos, buffer, out, pc, abortRequested,
    charsPerChunk, base, emitted, last, diagnosticCollection, suggestionMap,
    usedRanges, diagnosticCounter, assignedIds, isStreamingActive, notice,
    review, call>>

\* No function is called from outside the review.
Idle == [fn |-> "none"]

NoCall ==
  [buf |-> <<>>, parsed |-> <<>>, remainder |-> <<>>, origins |-> <<>>,
   matches |-> <<>>, base |-> 0, final |-> FALSE, held |-> -1, prev |-> -1]

InitWith(sc, text, doc, cpc) ==
  /\ script = sc
  /\ stream = text
  /\ document = doc
  /\ pos = 0
  /\ buffer = <<>>
  /\ out = <<>>
  /\ pc = "streaming"
  /\ abortRequested = FALSE
  /\ charsPerChunk = cpc
  /\ base = 0
  /\ emitted = <<>>
  /\ last = NoCall
  /\ diagnosticCollection = <<>>
  /\ suggestionMap = <<>>
  /\ usedRanges = <<>>
  /\ diagnosticCounter = 0
  /\ assignedIds = <<>>
  /\ isStreamingActive = TRUE
  /\ notice = "none"
  /\ review = 1
  /\ call = Idle

Init == \E sc \in Scripts : InitWith(sc, ResponseOf(sc), <<>>, 0)

\* parsePartialBuffer, lines 461-466: the offset in the stream of the last
\* block of buf when the call skips it as incomplete, -1 otherwise.
HeldOffset(buf, matches, b) ==
  IF matches # <<>> /\ ~IsBlockComplete(BlockOf(buf, matches[Len(matches)]))
  THEN b + matches[Len(matches)].index
  ELSE -1

\* The state addSuggestionAsDiagnostic works on.
Shared ==
  [diagnostics |-> diagnosticCollection, usedRanges |-> usedRanges,
   diagnosticCounter |-> diagnosticCounter, suggestionMap |-> suggestionMap,
   ids |-> assignedIds]

\* One parsePartialBuffer call on buf, whose first character is at offset b of
\* the stream, with the suggestions handed to onSuggestion one by one.
CallParse(buf, b, final) ==
  \E res \in {ParsePartialBuffer(buf)}, matches \in {MatchAll(buf)} :
   \E st \in {AssignAll(res.parsed, document, Shared)} :
     /\ diagnosticCollection' = st.diagnostics
     /\ usedRanges' = st.usedRanges
     /\ diagnosticCounter' = st.diagnosticCounter
     /\ suggestionMap' = st.suggestionMap
     /\ assignedIds' = st.ids
     /\ out' = out \o res.parsed
     /\ emitted' = emitted \o [k \in 1..Len(res.origins) |-> b + res.origins[k]]
     /\ last' = [buf |-> buf, parsed |-> res.parsed, remainder |-> res.remainder,
                 origins |-> res.origins, matches |-> matches, base |-> b,
                 final |-> final, held |-> HeldOffset(buf, matches, b),
                 prev |-> last.held]
     /\ IF final
        THEN UNCHANGED <<buffer, base>>
        ELSE /\ buffer' = res.remainder
             /\ base' = b + (Len(buf) - Len(res.remainder))

\* The user cancels the review: onAbort() turns true.
RequestAbort ==
  /\ pc = "streaming"
  /\ ~abortRequested
  /\ abortRequested' = TRUE
  /\ UNCHANGED <<call, script, stream, document, pos, buffer, out, pc,
                 charsPerChunk, base, emitted, last, shared,
                 isStreamingActive, notice, review>>

\* One pass of the for-await loop on a text delta of (up to) n characters.
Fragment(n) ==
  /\ pc = "streaming"
  /\ pos < Len(stream)
  /\ charsPerChunk \in {0, n}
  /\ IF abortRequested
     THEN /\ pc' = "aborted"
          /\ notice' = "cancelled"
          /\ isStreamingActive' = FALSE
          /\ UNCHANGED <<call, script, stream, document, pos, buffer, out,
                         abortRequested, charsPerChunk, base, emitted, last,
                         shared, review>>
     ELSE LET text == SubSeq(stream, pos + 1, Min(pos + n, Len(stream)))
          IN /\ CallParse(buffer \o text, base, FALSE)
             /\ pos' = pos + Len(text)
             /\ UNCHANGED <<call, script, stream, document, pc, abortRequested,
                            charsPerChunk, isStreamingActive, notice, review>>

\* The stream ends: the final parse, with the terminator appended, if the buffer
\* is not blank; then the function returns and the review reports its end.
Finish ==
  /\ pc = "streaming"
  /\ pos = Len(stream)
  /\ pc' = "done"
  /\ notice' = "complete"
  /\ isStreamingActive' = FALSE
  /\ IF Trim(buffer) # <<>>
     THEN CallParse(buffer \o Terminator, base, TRUE)
     ELSE UNCHANGED <<buffer, out, base, emitted, last, shared>>
  /\ UNCHANGED <<call, script, stream, document, pos, abortRequested,
                 charsPerChunk, review>>

Next ==
  \/ \E n \in 1..MaxChunk \cup {Len(stream)} : Fragment(n)
  \/ Finish
  \/ RequestAbort

Spec == Init /\ [][Next]_vars

\* The end-to-end scenario: the scenario's block, streamed by a service that
\* cuts it every charsPerChunk characters, against the scenario's document.
ScenarioSizes == 1..MaxChunk \cup {Len(ScenarioStream)}

InitScenario ==
  \E cpc \in ScenarioSizes :
    InitWith(<<"plain">>, ScenarioStream, ScenarioDocument, cpc)

SpecScenario == InitScenario /\ [][Next]_vars

\* ------------------------------------------------------------------------
\* extension.ts: the review command and the commands on its diagnostics
\* ------------------------------------------------------------------------

\* The reviewed document changes while a review streams: the review is to
\* abort and the diagnostics shown are cleared.
DocumentChanged ==
  /\ isStreamingActive
  /\ abortRequested' = TRUE
  /\ diagnosticCollection' = <<>>
  /\ UNCHANGED <<call, script, stream, document, pos, buffer, out, pc,
                 charsPerChunk, base, emitted, last, suggestionMap,
                 usedRanges, diagnosticCounter, assignedIds,
                 isStreamingActive, notice, review>>

\* framerd.clearDiagnostics
ClearDiagnostics ==
  /\ diagnosticCollection' = <<>>
  /\ suggestionMap' = <<>>
  /\ usedRanges' = <<>>
  /\ diagnosticCounter' = 0
  /\ UNCHANGED <<call, script, stream, document, pos, buffer, out, pc,
                 abortRequested, charsPerChunk, base, emitted, last,
                 assignedIds, isStreamingActive, notice, review>>

\* A faulty variant of Without: the diagnostics without a code are removed too.
Without_Uncoded(diagnostics, code) ==
  SelectSeq(diagnostics, LAMBDA d : d.code # code /\ d.code # 0)

\* The diagnostics left when those with the given code are removed.
Without(diagnostics, code) ==
  SelectSeq(diagnostics, LAMBDA d : d.code # code)

\* framerd.removeDiagnostic, for the code of a diagnostic shown (the command is
\* an argument of the quick fixes of that diagnostic).
RemoveDiagnostic(code) ==
  /\ \E k \in 1..Len(diagnosticCollection) :
       diagnosticCollection[k].code = code
  /\ code # 0
  /\ suggestionMap' = [k \in DOMAIN suggestionMap \ {code} |-> suggestionMap[k]]
  /\ diagnosticCollection' = Without(diagnosticCollection, code)
  /\ UNCHANGED <<call, script, stream, document, pos, buffer, out, pc,
                 abortRequested, charsPerChunk, base, emitted, last,
                 usedRanges, diagnosticCounter, assignedIds,
                 isStreamingActive, notice, review>>

\* The stream fails: the loop throws; the review reports a cancellation if the
\* error's message includes 'aborted', an API error otherwise.
StreamError(includesAborted) ==
  /\ pc = "streaming"
  /\ pc' = "failed"
  /\ notice' = IF includesAborted THEN "cancelled" ELSE "error"
  /\ isStreamingActive' = FALSE
  /\ UNCHANGED <<call, script, stream, document, pos, buffer, out, abortRequested,
                 charsPerChunk, base, emitted, last, shared, review>>

\* framerd.review, once the review before it has ended: the state of the
\* diagnostics is reset and the response to this review starts to stream.
StartReview(sc) ==
  /\ ~isStreamingActive
  /\ review < MaxReviews
  /\ review' = review + 1
  /\ script' = sc
  /\ stream' = ReviewResponseOf(sc)
  /\ pos' = 0
  /\ buffer' = <<>>
  /\ out' = <<>>
  /\ pc' = "streaming"
  /\ abortRequested' = FALSE
  /\ base' = 0
  /\ emitted' = <<>>
  /\ last' = NoCall
  /\ diagnosticCollection' = <<>>
  /\ suggestionMap' = <<>>
  /\ usedRanges' = <<>>
  /\ diagnosticCounter' = 0
  /\ assignedIds' = <<>>
  /\ isStreamingActive' = TRUE
  /\ notice' = "none"
  /\ UNCHANGED <<call, document, charsPerChunk>>

\* The sizes of the fragments of a review's response: the response cut into
\* 1 .. MaxParts parts.
ReviewSizes(text) ==
  {(Len(text) + k - 1) \div k : k \in 1..MaxParts}

InitReview ==
  \E sc \in ReviewScripts : InitWith(sc, ReviewResponseOf(sc), ReviewDocument, 0)

NextReview ==
  \/ \E n \in ReviewSizes(stream) : Fragment(n)
  \/ Finish
  \/ RequestAbort
  \/ DocumentChanged
  \/ \E includesAborted \in BOOLEAN : StreamError(includesAborted)
  \/ ClearDiagnostics
  \/ \E code \in 1..diagnosticCounter : RemoveDiagnostic(code)
  \/ \E sc \in ReviewScripts : StartReview(sc)

SpecReview == InitReview /\ [][NextReview]_vars

\* ------------------------------------------------------------------------
\* onSuggestion, called with suggestions of every shape
\* ------------------------------------------------------------------------

\* A rewrite of n characters.
RewriteOfLength(n) == [k \in 1..n |-> "x"]

\* The rewrites and the categories of the suggestions handed over: blank
\* rewrites, rewrites with and without ' or ', and rewrites around the longest
\* length of a quick fix; categories set aside for judgment, in several
\* spellings, and others.
ProbeRewrites ==
  {<<>>, <<" ">>, <<"\t","\n"," ">>, <<"o","k">>,
   <<"a"," ","o","r"," ","b">>, <<"o","r">>, <<" ","o","r"," ">>,
   <<"a"," ","o","r">>, <<"f","o","r"," ","m","e">>,
   <<"a"," ","O","R"," ","b">>,
   RewriteOfLength(MaxRewriteLength - 1), RewriteOfLength(MaxRewriteLength),
   RewriteOfLength(MaxRewriteLength + 1)}

ProbeCategories ==
  {<<"g","r","a","m","m","a","r">>,
   <<"c","o","n","s","i","s","t","e","n","c","y">>,
   <<"C","o","n","s","i","s","t","e","n","c","y">>,
   <<"S","T","R","U","C","T","U","R","E">>,
   <<"w","o","r","d","_","c","h","o","i","c","e">>,
   <<"W","o","r","d","_","C","h","o","i","c","e">>,
   <<"w","o","r","d"," ","c","h","o","i","c","e">>,
   <<"s","t","r","u","c","t","u","r","a","l">>,
   <<"s","p","e","l","l","i","n","g">>}

\* The suggestions handed over: each is about the last word of the document.
Probes ==
  {[comment |-> <<"p">>, target_excerpt |-> ReviewKinds.apart.excerpt,
    category |-> c, severity |-> ReviewKinds.apart.severity,
    explanation |-> <<"p">>, rewrite |-> r] :
     r \in ProbeRewrites, c \in ProbeCategories}

\* The most suggestions handed over.
MaxCalls == 1

\* The callback of the review, (suggestion) => addSuggestionAsDiagnostic(
\* suggestion, text, editor), called with one suggestion.
OnSuggestion(suggestion) ==
  /\ pc = "streaming"
  /\ Len(out) < MaxCalls
  /\ out' = Append(out, suggestion)
  /\ \E st \in {AddSuggestionAsDiagnostic(suggestion, document, Shared)} :
       /\ diagnosticCollection' = st.diagnostics
       /\ usedRanges' = st.usedRanges
       /\ diagnosticCounter' = st.diagnosticCounter
       /\ suggestionMap' = st.suggestionMap
       /\ assignedIds' = st.ids
  /\ UNCHANGED <<call, script, stream, document, pos, buffer, pc, abortRequested,
                 charsPerChunk, base, emitted, last, isStreamingActive,
                 notice, review>>

InitQuickFix == InitWith(<<>>, <<>>, ReviewDocument, 0)

NextQuickFix == \E suggestion \in Probes : OnSuggestion(suggestion)

SpecQuickFix == InitQuickFix /\ [][NextQuickFix]_vars

\* ------------------------------------------------------------------------
\* The pure functions, called with arguments of every shape
\* ------------------------------------------------------------------------

\* ------------------------------------------------------------------------
\* framerd.review invoked while the review before it is still streaming
\* ------------------------------------------------------------------------

\* The responses of the reviews during which another review is started.
RestartScripts == {<<"first", "overlapping", "apart">>, <<"deletion", "apart">>}

\* The most fragments of equal size such a response is cut into.
MaxRestartParts == 2

RestartSizes(text) ==
  {(Len(text) + k - 1) \div k : k \in 1..MaxRestartParts}

\* framerd.review, lines 252-281, while the review before it has not ended:
\* the command has no test of isStreamingActive.  The diagnostics, the map,
\* the committed ranges, the counter and streamAbortRequested are shared by
\* the two reviews and are reset.  The loop of the earlier review keeps its
\* own buffer and position (script .. last stay its variables) and goes on
\* with Fragment and Finish; call records the new review, whose response has
\* not begun to arrive, and whether an abort had been requested for the
\* earlier one.
ReviewWhileStreaming ==
  /\ pc = "streaming"
  /\ call = Idle
  /\ review < MaxReviews
  /\ call' = [fn |-> "framerd.review", ended |-> FALSE,
              abortWanted |-> abortRequested]
  /\ review' = review + 1
  /\ abortRequested' = FALSE
  /\ diagnosticCollection' = <<>>
  /\ suggestionMap' = <<>>
  /\ usedRanges' = <<>>
  /\ diagnosticCounter' = 0
  /\ assignedIds' = <<>>
  /\ isStreamingActive' = TRUE
  /\ UNCHANGED <<script, stream, document, pos, buffer, out, pc,
                 charsPerChunk, base, emitted, last, notice>>

\* The request of the new review fails before any text arrives: the error is
\* reported and the finally clause turns isStreamingActive off.
LaterReviewFails ==
  /\ call.fn = "framerd.review"
  /\ ~call.ended
  /\ call' = [call EXCEPT !.ended = TRUE]
  /\ notice' = "error"
  /\ isStreamingActive' = FALSE
  /\ UNCHANGED <<script, stream, document, pos, buffer, out, pc,
                 abortRequested, charsPerChunk, base, emitted, last, shared,
                 review>>

InitRestart ==
  \E sc \in RestartScripts :
    \E cpc \in RestartSizes(ReviewResponseOf(sc)) :
      InitWith(sc, ReviewResponseOf(sc), ReviewDocument, cpc)

NextRestart ==
  \/ Fragment(charsPerChunk)
  \/ Finish
  \/ DocumentChanged
  \/ ReviewWhileStreaming
  \/ LaterReviewFails

SpecRestart == InitRestart /\ [][NextRestart]_vars

\* ------------------------------------------------------------------------
\* Calls of the pure functions
\* ------------------------------------------------------------------------


\* The variables of the review, which these calls leave alone.
process ==
  <<script, stream, document, pos, buffer, out, pc, abortRequested,
    charsPerChunk, base, emitted, last, diagnosticCollection, suggestionMap,
    usedRanges, diagnosticCounter, assignedIds, isStreamingActive, notice,
    review>>

\* Text that holds no part of an excerpt.
Filler(n) == [k \in 1..n |-> "."]

\* The first and the last characters of the excerpts searched for.
Head5 == <<"a","b","c","d","e">>

Tail5 == <<"v","w","x","y","z">>

\* An excerpt of n characters, n >= 10, between Head5 and Tail5.
ExcerptOfLength(n) == Head5 \o [k \in 1..(n - 10) |-> "m"] \o Tail5

\* The excerpts searched for: around the least length of a partial match, and
\* the one of the review's document that lacks a word.
LocatorExcerpts ==
  {ExcerptOfLength(MinPartialLength - 1), ExcerptOfLength(MinPartialLength),
   ExcerptOfLength(MinPartialLength + 3), ExcerptOfLength(MinPartialLength + 4),
   ReviewKinds.fuzzy.excerpt}

\* The texts searched: the head and the tail of an excerpt at several
\* distances, the tail near or past the ends of the search window, before the
\* head, twice, or cut short; the head twice; and whole excerpts.
LocatorTexts ==
  {Filler(a) \o Head5 \o Filler(g) \o Tail5 \o Filler(a) :
     a \in {0, searchWindow - 10},
     g \in {0, 10, 13, searchWindow + 10, searchWindow + 11,
            searchWindow + 13, searchWindow + 14}}
  \cup {Tail5 \o Filler(h) \o Head5 \o Filler(MinPartialLength) :
          h \in {0, searchWindow - 20, searchWindow - 19}}
  \cup {Tail5 \o Filler(2) \o Head5 \o Filler(10) \o Tail5,
        Head5 \o Filler(3) \o Tail5 \o Filler(2) \o Tail5,
        Head5 \o Filler(searchWindow + 20) \o Head5 \o Filler(10) \o Tail5,
        Head5 \o Filler(10) \o SubSeq(Tail5, 1, 4),
        Head5 \o Filler(MinPartialLength), Tail5, <<>>,
        Filler(2) \o ExcerptOfLength(MinPartialLength + 4) \o Filler(2),
        ExcerptOfLength(MinPartialLength - 1),
        Head5 \o Filler(searchWindow + 20) \o ExcerptOfLength(MinPartialLength),
        Head5 \o Filler(3) \o Tail5 \o Filler(4)
          \o ExcerptOfLength(MinPartialLength),
        Tail5 \o ExcerptOfLength(MinPartialLength) \o Filler(1)
          \o ExcerptOfLength(MinPartialLength),
        ReviewDocument,
        SubSeq(ReviewKinds.fuzzy.excerpt, 20, 26) \o <<" ">>
          \o SubSeq(ReviewKinds.fuzzy.excerpt, 1, 6)}

\* findExcerptPartialMatch(text, excerpt) is called.
LocatorCalls ==
  {[fn |-> "findExcerptPartialMatch", text |-> text, excerpt |-> excerpt,
    done |-> FALSE] : text \in LocatorTexts, excerpt \in LocatorExcerpts}

\* findExcerptPartialMatch returns.
FindExcerptPartialMatchReturns ==
  /\ call.fn = "findExcerptPartialMatch"
  /\ ~call.done
  /\ call' = [fn |-> call.fn, text |-> call.text, excerpt |-> call.excerpt,
              done |-> TRUE,
              result |-> FindExcerptPartialMatch(call.text, call.excerpt)]
  /\ UNCHANGED process

\* The typographic quotation marks U+201C, U+201D, U+2018 and U+2019, each one
\* character of a text.
LeftDouble == "U+201C"

RightDouble == "U+201D"

LeftSingle == "U+2018"

RightSingle == "U+2019"

\* The values stripQuotes is called with: in straight quotes, in several
\* layers, with quotes inside, with a quote at one end only, with quotes that
\* do not pair, blank, and in typographic quotes.
StripTexts ==
  {<<"\"","\"","\"","a","\"","\"","\"">>,
   <<"\"","s","h","e"," ","s","a","i","d"," ","\"","h","e","l","l","o","\"",
    "\"">>,
   <<"h","e"," ","s","a","i","d"," ","\"","h","i","\""," ","t","w","i","c",
    "e">>,
   <<"i","t","'","s">>,
   <<"'","a","'">>,
   <<"'","'","a","'","'">>,
   <<"\"">>,
   <<"\"","\"">>,
   <<"\""," ","a"," ","\"">>,
   <<" "," ","\"","a","\"","\n">>,
   <<"a">>,
   <<"'">>,
   <<"\"","a">>,
   <<"a","\"">>,
   <<"'","\"","a","\"","'">>,
   <<"\"","a","'">>,
   <<"\"","a","\""," ","a","n","d"," ","\"","b","\"">>,
   <<>>,
   <<" "," ">>,
   <<LeftDouble,"a"," ","b",RightDouble>>,
   <<LeftSingle,"a"," ","b",RightSingle>>,
   <<LeftDouble,RightDouble>>,
   <<LeftDouble,"a">>,
   <<"a"," ",LeftDouble,"b",RightDouble," ","c">>,
   <<"\"",LeftDouble,"a",RightDouble,"\"">>}

\* stripQuotes(text) is called.
StripCalls ==
  {[fn |-> "stripQuotes", text |-> text, done |-> FALSE] : text \in StripTexts}

\* stripQuotes returns.
StripQuotesReturns ==
  /\ call.fn = "stripQuotes"
  /\ ~call.done
  /\ call' = [fn |-> call.fn, text |-> call.text, done |-> TRUE,
              result |-> StripQuotes(call.text)]
  /\ UNCHANGED process

\* A block body with the given values of EXCERPT, PROBLEM and FIX, as written
\* after the field names.
FieldBlock(excerpt, problem, fix) ==
  <<"E","X","C","E","R","P","T",":"," ">> \o excerpt \o <<"\n">>
  \o CategoryLine \o SeverityLine
  \o <<"P","R","O","B","L","E","M",":"," ">> \o problem \o <<"\n">>
  \o <<"F","I","X",":"," ">> \o fix

\* The values of the fields of the blocks parseIssueBlock is called with.
BlockExcerpts ==
  {<<"\"","a","\"">>,
   <<"'","a"," ","b","'">>,
   <<"a">>,
   <<LeftDouble,"a",RightDouble>>,
   <<LeftSingle,"a"," ","b",RightSingle>>,
   <<"\"","f","i","r","s","t"," ","l","i","n","e","\n","s","e","c","o","n",
    "d"," ","l","i","n","e","\"">>}

BlockProblems ==
  {<<"p">>,
   <<"u","s","e"," ","a"," ","s","u","f","f","i","x",":"," ","-","l","y">>,
   <<"t","h","e"," ","f","i","x",":"," ","s","e","e"," ","b","e","l","o","w">>,
   <<"t","w","o","\n","l","i","n","e","s">>,
   <<"F","i","x"," ","t","h","e"," ","p","r","e","f","i","x",":"," ","u","n",
    "-">>,
   <<"U","s","e"," ","t","h","e"," ","p","r","e","f","i","x",":"," ","\"",
    "u","n","\"">>}

BlockFixes ==
  {<<"\"","s","h","e"," ","s","a","i","d"," ","\"","h","e","l","l","o","\"",
    "\"">>,
   <<"\"","c"," ","d","\"">>,
   <<"c"," ","d">>,
   <<LeftDouble,"c"," ","d",RightDouble>>,
   <<LeftSingle,"c",RightSingle>>,
   <<>>,
   <<"f","i","x","e","d"," ","f","i","r","s","t","\n","f","i","x","e","d",
    " ","s","e","c","o","n","d">>,
   <<"\"","\"","\"","a","\"","\"","\"">>,
   <<"s","a","y"," ","\"","h","i","\""," ","n","o","w">>}

\* parseIssueBlock(block) is called; the values the block was written with are
\* kept for the properties.
ParseCalls ==
  {[fn |-> "parseIssueBlock", block |-> FieldBlock(excerpt, problem, fix),
    excerpt |-> excerpt, problem |-> problem, fix |-> fix, done |-> FALSE] :
     excerpt \in BlockExcerpts, problem \in BlockProblems, fix \in BlockFixes}

\* parseIssueBlock returns.
ParseIssueBlockReturns ==
  /\ call.fn = "parseIssueBlock"
  /\ ~call.done
  /\ call' = [fn |-> call.fn, block |-> call.block, excerpt |-> call.excerpt,
              problem |-> call.problem, fix |-> call.fix, done |-> TRUE,
              result |-> ParseIssueBlock(call.block),
              complete |-> IsBlockComplete(call.block)]
  /\ UNCHANGED process

\* The buffers the segmenter is run on: two blocks as the model writes them
\* with the terminator of the final call, and buffers with a body of white
\* space, a "---" line that no ISSUE line follows, and four hyphens.
SegmenterBuffers ==
  {ResponseOf(<<"plain", "emptyFix">>) \o Terminator,
   <<"-","-","-","\n","I","S","S","U","E"," ","1","\n"," ","\n","X","\n","-",
    "-","-","\n","I","S","S","U","E"," ","2","\n","Y","\n","-","-","-"," ",
    "\n","Z">>,
   <<"-","-","-","\n","I","S","S","U","E"," ","1","\n","F","I","X",":"," ",
    "a","\n","-","-","-","\n","b","\n","-","-","-","\n","I","S","S","U","E",
    " ","2","\n","F","I","X",":"," ","c","\n","-","-","-">>,
   <<"x","-","-","-","\n","\n","i","s","s","u","e"," ","1","2"," ","\n","\n",
    "-","-","-","\n","I","S","S","U","E"," ","3","\n","-","-","-","-","\n",
    "I","S","S","U","E"," ","4","\n">>}

\* buffer.matchAll(issuePattern) is run on a buffer b1 and on a buffer b2 that
\* b1 is a prefix of.
SegmenterCalls ==
  {[fn |-> "matchAll", b1 |-> SubSeq(pair[1], 1, pair[2]), b2 |-> pair[1],
    done |-> FALSE] :
     pair \in UNION {{<<b, k>> : k \in 0..Len(b)} : b \in SegmenterBuffers}}

\* match[2] of every match, in order.
Bodies(s) == LET m == MatchAll(s) IN [k \in 1..Len(m) |-> BlockOf(s, m[k])]

\* Both runs return.
MatchAllReturns ==
  /\ call.fn = "matchAll"
  /\ ~call.done
  /\ call' = [fn |-> call.fn, b1 |-> call.b1, b2 |-> call.b2, done |-> TRUE,
              matches1 |-> MatchAll(call.b1), matches2 |-> MatchAll(call.b2),
              bodies1 |-> Bodies(call.b1), bodies2 |-> Bodies(call.b2)]
  /\ UNCHANGED process

\* The k-th block of a response with the ordinal written as the text ord.
NumberedBlock(kind, k, ord) ==
  LET text == BlockText(kind, k)
  IN <<"-","-","-","\n","I","S","S","U","E"," ">> \o ord \o <<"\n">>
     \o SubSeq(text, Len(Header(Ordinal[k])) + 1, Len(text))

RECURSIVE NumberedBlocks(_, _, _)
NumberedBlocks(kinds, ords, k) ==
  IF k > Len(kinds) THEN <<>>
  ELSE NumberedBlock(kinds[k], k, ords[k]) \o NumberedBlocks(kinds, ords, k + 1)

\* The responses whose ordinals are varied, and the ordinals written on their
\* ISSUE lines: in order, out of order, duplicated, and other values.
NumberedScripts ==
  {<<"plain", "quoted">>, <<"quoted", "badSeverity", "plain">>,
   <<"emptyFix", "quoted">>}

InOrder == <<<<"1">>, <<"2">>, <<"3">>>>

Numberings ==
  {<<<<"3">>, <<"2">>, <<"1">>>>, <<<<"1">>, <<"1">>, <<"1">>>>,
   <<<<"1","2">>, <<"0">>, <<"7">>>>, <<<<"2">>, <<"0","0","7">>, <<"2">>>>}

\* The most characters a buffer lacks at its end.
MaxCut == 12

\* The buffer of a parsePartialBuffer call: the response with the given
\* ordinals, short of its last cut characters.
CutBuffer(kinds, ords, cut) ==
  LET text == NumberedBlocks(kinds, ords, 1)
  IN SubSeq(text, 1, Len(text) - cut)

\* parsePartialBuffer is called on a buffer, and on the same buffer with the
\* ordinals in order.
BufferCalls ==
  {[fn |-> "parsePartialBuffer", buffer |-> CutBuffer(kinds, ords, cut),
    inOrder |-> CutBuffer(kinds, InOrder, cut), cut |-> cut, done |-> FALSE] :
     kinds \in NumberedScripts, ords \in Numberings, cut \in 0..MaxCut}

\* Both calls return.
ParsePartialBufferReturns ==
  /\ call.fn = "parsePartialBuffer"
  /\ ~call.done
  /\ \E result \in {ParsePartialBuffer(call.buffer)} :
       \E reference \in {ParsePartialBuffer(call.inOrder)} :
         call' = [fn |-> call.fn, buffer |-> call.buffer,
                  inOrder |-> call.inOrder, cut |-> call.cut, done |-> TRUE,
                  result |-> result, reference |-> reference]
  /\ UNCHANGED process

\* parseCompleteIssueBlocks is called on a response, whole (cut = 0) or short
\* of its end.
OneShotCalls ==
  {[fn |-> "parseCompleteIssueBlocks", text |-> CutBuffer(kinds, ords, cut),
    cut |-> cut, done |-> FALSE] :
     kinds \in NumberedScripts, ords \in Numberings \cup {InOrder},
     cut \in 0..MaxCut}

\* The call returns; parsePartialBuffer is applied once to the same text.
ParseCompleteIssueBlocksReturns ==
  /\ call.fn = "parseCompleteIssueBlocks"
  /\ ~call.done
  /\ \E result \in {ParseCompleteIssueBlocks(call.text)} :
       \E partial \in {ParsePartialBuffer(call.text)} :
         call' = [fn |-> call.fn, text |-> call.text, cut |-> call.cut,
                  done |-> TRUE, result |-> result, partial |-> partial]
  /\ UNCHANGED process

PureCalls ==
  LocatorCalls \cup StripCalls \cup ParseCalls \cup SegmenterCalls

\* No review has run: the state of the module after activation.
NoReview ==
  /\ script = <<>>
  /\ stream = <<>>
  /\ document = <<>>
  /\ pos = 0
  /\ buffer = <<>>
  /\ out = <<>>
  /\ pc = "idle"
  /\ abortRequested = FALSE
  /\ charsPerChunk = 0
  /\ base = 0
  /\ emitted = <<>>
  /\ last = NoCall
  /\ diagnosticCollection = <<>>
  /\ suggestionMap = <<>>
  /\ usedRanges = <<>>
  /\ diagnosticCounter = 0
  /\ assignedIds = <<>>
  /\ isStreamingActive = FALSE
  /\ notice = "none"
  /\ review = 0

InitPure ==
  /\ NoReview
  /\ call \in PureCalls

NextPure ==
  \/ FindExcerptPartialMatchReturns
  \/ StripQuotesReturns
  \/ ParseIssueBlockReturns
  \/ MatchAllReturns

SpecPure == InitPure /\ [][NextPure]_vars

\* The calls of parsePartialBuffer on whole and cut responses.
InitBuffer ==
  /\ NoReview
  /\ call \in BufferCalls

NextBuffer == ParsePartialBufferReturns

SpecBuffer == InitBuffer /\ [][NextBuffer]_vars

\* The calls of parseCompleteIssueBlocks.
InitOneShot ==
  /\ NoReview
  /\ call \in OneShotCalls

NextOneShot == ParseCompleteIssueBlocksReturns

SpecOneShot == InitOneShot /\ [][NextOneShot]_vars

\* ------------------------------------------------------------------------
\* The search loop of findExcerptPartialMatch, one iteration per step
\* ------------------------------------------------------------------------

\* text.indexOf(t, from): the 0-based offset of the first occurrence of t at
\* or after from, or -1.
IndexOfFrom(text, t, from) ==
  LET hits == {i \in from..(Len(text) - Len(t)) : SubstringIs(text, i, t)}
  IN IF hits = {} THEN -1 ELSE Least(hits)

\* A faulty variant of NextSearchStart: the search resumes at the occurrence
\* just tried.
NextSearchStart_Same(prefixIndex) == prefixIndex

\* searchStart = prefixIndex + 1, line 47
NextSearchStart(prefixIndex) == prefixIndex + 1

\* The function is entered: searchStart = 0, no occurrence tried yet.
LoopCalls ==
  {[fn |-> "findExcerptPartialMatch", text |-> text, excerpt |-> excerpt,
    searchStart |-> 0, visited |-> <<>>, done |-> FALSE, result |-> Null] :
     text \in LocatorTexts, excerpt \in LocatorExcerpts}

\* matchLength, prefix, suffix and prefixIndex of the call in progress.
LoopMatchLength == MatchLength(Len(call.excerpt))

LoopPrefix == SubSeq(call.excerpt, 1, LoopMatchLength)

LoopSuffix ==
  SubSeq(call.excerpt, Len(call.excerpt) - LoopMatchLength + 1,
         Len(call.excerpt))

LoopPrefixIndex == IndexOfFrom(call.text, LoopPrefix, call.searchStart)

\* The offsets of the window at which the suffix is found, for the prefix
\* occurrence at hand.
LoopSuffixAt ==
  {q \in SuffixWindow(LoopPrefixIndex + Len(call.excerpt) - LoopMatchLength) :
     SubstringIs(call.text, q, LoopSuffix)}

\* The loop is running.
InLoop ==
  /\ call.fn = "findExcerptPartialMatch"
  /\ ~call.done
  /\ Len(call.excerpt) >= MinPartialLength

\* excerpt.length < 20: return null, lines 14-16.
ShortExcerpt ==
  /\ call.fn = "findExcerptPartialMatch"
  /\ ~call.done
  /\ Len(call.excerpt) < MinPartialLength
  /\ call' = [call EXCEPT !.done = TRUE, !.result = Null]
  /\ UNCHANGED process

\* prefixIndex === -1: break, return null, lines 26-29 and 50.
PrefixNotFound ==
  /\ InLoop
  /\ LoopPrefixIndex = -1
  /\ call' = [call EXCEPT !.done = TRUE, !.result = Null]
  /\ UNCHANGED process

\* The suffix is in the window of this occurrence: return the span, lines
\* 36-43.
SuffixFound ==
  /\ InLoop
  /\ LoopPrefixIndex # -1
  /\ LoopSuffixAt # {}
  /\ call' = [call EXCEPT
                !.done = TRUE,
                !.visited = Append(@, LoopPrefixIndex),
                !.result = Some([index |-> LoopPrefixIndex,
                                 length |-> Least(LoopSuffixAt) + LoopMatchLength
                                            - LoopPrefixIndex])]
  /\ UNCHANGED process

\* No suffix in the window: try the next occurrence of the prefix, line 47.
TryNextOccurrence ==
  /\ InLoop
  /\ LoopPrefixIndex # -1
  /\ LoopSuffixAt = {}
  /\ call' = [call EXCEPT
                !.searchStart = NextSearchStart(LoopPrefixIndex),
                !.visited = Append(@, LoopPrefixIndex)]
  /\ UNCHANGED process

InitLocatorLoop ==
  /\ NoReview
  /\ call \in LoopCalls

NextLocatorLoop ==
  \/ ShortExcerpt
  \/ PrefixNotFound
  \/ SuffixFound
  \/ TryNextOccurrence

\* The loop is synchronous code: an iteration that can run does run.
SpecLocatorLoop ==
  InitLocatorLoop /\ [][NextLocatorLoop]_vars /\ WF_vars(NextLocatorLoop)

\* ------------------------------------------------------------------------
\* Properties
\* ------------------------------------------------------------------------

\* a is a suffix of b.
IsSuffix(a, b) == Len(a) <= Len(b) /\ a = Slice(b, Len(b) - Len(a))

\* Every block of the response is of a well-formed kind.
WellFormedResponse == \A k \in 1..Len(script) : script[k] \in WellFormedKinds

\* What the loop collects when the whole text arrives as one fragment: one
\* parsePartialBuffer call, then the final parse of what it left.
OneShot(text) ==
  LET first == ParsePartialBuffer(text)
  IN first.parsed
     \o (IF Trim(first.remainder) # <<>>
         THEN ParsePartialBuffer(first.remainder \o Terminator).parsed
         ELSE <<>>)

(* C1. Chunking invariance: for a complete, well-formed response, however it
   is cut into fragments, the streaming loop with its final parse collects
   the same ordered list of records, field for field, as parsing the whole
   response in one shot. *)
ChunkingInvariance ==
  (pc = "done" /\ WellFormedResponse) => out = OneShot(stream)

(* C2. End-to-end scenario: the scenario's block fed three characters at a
   time yields exactly one record, with target_excerpt 'The cat sat on mat',
   rewrite 'The cat sat on the mat' and severity high, and the excerpt is
   found in the document 'The cat sat on mat.' at offset 0 with length 18. *)
EndToEndScenario ==
  (pc = "done" /\ stream = ScenarioStream /\ charsPerChunk = 3) =>
    /\ Len(out) = 1
    /\ out[1].target_excerpt = ScenarioExcerpt
    /\ out[1].rewrite = ScenarioRewrite
    /\ out[1].severity = <<"h","i","g","h">>
    /\ IndexOf(document, out[1].target_excerpt) = 0
    /\ Len(out[1].target_excerpt) = 18

\* The blocks of the buffer of the latest parsePartialBuffer call.
LastMatches == last.matches

\* The offsets (in the buffer of the latest call) of the blocks that gave a
\* record in that call.
LastOrigins == {last.origins[k] : k \in 1..Len(last.origins)}

\* How many characters the latest call cut off the front of its buffer.
LastConsumed == Len(last.buf) - Len(last.remainder)

(* C3. Monotonic remainder: at every parsePartialBuffer call of the loop the
   remainder returned is a suffix of the buffer passed in, and over the whole
   run no block of the response gives rise to more than one record. *)
MonotonicRemainder ==
  /\ IsSuffix(last.remainder, last.buf)
  /\ \A i, j \in 1..Len(emitted) : i < j => emitted[i] # emitted[j]

\* A later call of a run emitted a second record and left a proper, non-empty
\* remainder.
MonotonicRemainderWitness ==
  /\ Len(emitted) >= 2
  /\ last.parsed # <<>>
  /\ last.remainder # <<>>
  /\ Len(last.remainder) < Len(last.buf)

(* C4. Idempotence: for every buffer b the loop passes to parsePartialBuffer
   and every prefix b of the response, parsing the remainder that
   parsePartialBuffer(b) returned gives zero records and the same remainder. *)
IdempotentOn(b) ==
  LET remainder == ParsePartialBuffer(b).remainder
      again == ParsePartialBuffer(remainder)
  IN again.parsed = <<>> /\ again.remainder = remainder

Idempotence ==
  /\ LET again == ParsePartialBuffer(last.remainder)
     IN again.parsed = <<>> /\ again.remainder = last.remainder
  /\ IdempotentOn(SubSeq(stream, 1, pos))

\* The latest call parsed a record and left a non-empty remainder.
IdempotenceWitness == last.parsed # <<>> /\ last.remainder # <<>>

\* The raw FIX value of a block as isBlockComplete reads it: what follows the
\* first "FIX:", trimmed.
RawFixValue(block) ==
  LET i == IndexOfCI(block, <<"f","i","x",":">>, 1)
  IN Trim(SubSeq(block, i + 4, Len(block)))

\* The value opens a quote it does not close.
OpensQuote(v) ==
  \E q \in {"\"", "'"} : StartsWith(v, q) /\ (~EndsWith(v, q) \/ Len(v) = 1)

\* The last block of the latest call's buffer has a FIX value with an open quote.
LastBlockOpensQuote ==
  /\ LastMatches # <<>>
  /\ LET block == BlockOf(last.buf, LastMatches[Len(LastMatches)])
     IN HasField(block, <<"f","i","x",":">>) /\ OpensQuote(RawFixValue(block))

(* C5. Quoted FIX hold-back: when the last block of the buffer has a raw FIX
   value that begins with a quote character and does not end with the same
   character (or is that single character), isBlockComplete is false,
   parsePartialBuffer emits no record for the block, and the block stays in
   the remainder. *)
QuotedFixHoldBack ==
  LastBlockOpensQuote =>
    LET m == LastMatches[Len(LastMatches)]
    IN /\ ~IsBlockComplete(BlockOf(last.buf, m))
       /\ m.index \notin LastOrigins
       /\ LastConsumed <= m.index
       /\ IsSuffix(last.remainder, last.buf)

\* A block with all five fields whose quoted FIX value is still open.
QuotedFixHoldBackWitness ==
  /\ LastBlockOpensQuote
  /\ LET block == BlockOf(last.buf, LastMatches[Len(LastMatches)])
     IN /\ HasField(block, <<"p","r","o","b","l","e","m",":">>)
        /\ Len(RawFixValue(block)) > 1

\* The block has all five field names and a FIX value that is empty after
\* trimming.
EmptyFix(block) ==
  /\ HasField(block, <<"e","x","c","e","r","p","t",":">>)
  /\ HasField(block, <<"c","a","t","e","g","o","r","y",":">>)
  /\ HasField(block, <<"s","e","v","e","r","i","t","y",":">>)
  /\ HasField(block, <<"p","r","o","b","l","e","m",":">>)
  /\ HasField(block, <<"f","i","x",":">>)
  /\ RawFixValue(block) = <<>>

\* The bodies of the blocks of the latest call's buffer.
LastBlocks == {BlockOf(last.buf, LastMatches[k]) : k \in 1..Len(LastMatches)}

(* C6. Empty FIX is complete: isBlockComplete returns true for a
   block that contains all five field names and whose FIX value is empty after
   trimming. *)
EmptyFixIsComplete ==
  \A block \in LastBlocks : EmptyFix(block) => IsBlockComplete(block)

\* The five field names, as the patterns spell them.
ExcerptName == <<"e","x","c","e","r","p","t",":">>
CategoryName == <<"c","a","t","e","g","o","r","y",":">>
SeverityName == <<"s","e","v","e","r","i","t","y",":">>
ProblemName == <<"p","r","o","b","l","e","m",":">>
FixName == <<"f","i","x",":">>

\* The severity token of a block, in lower case; <<>> when there is none.
SeverityToken(block) ==
  LET f == ExtractField(block, <<"s","e","v","e","r","i","t","y">>,
                        ProblemName)
  IN IF f.ok THEN ToLowerCase(f.v) ELSE <<>>

\* The block has an unrecognized severity token or lacks EXCERPT, CATEGORY,
\* SEVERITY or PROBLEM.
Malformed(block) ==
  \/ ~HasField(block, ExcerptName)
  \/ ~HasField(block, CategoryName)
  \/ ~HasField(block, SeverityName)
  \/ ~HasField(block, ProblemName)
  \/ SeverityToken(block) \notin
       {<<"h","i","g","h">>, <<"m","o","d","e","r","a","t","e">>, <<"l","o","w">>}

\* The text without the characters at offsets from..to-1.
Cut(text, from, to) == SubSeq(text, 1, from) \o SubSeq(text, to + 1, Len(text))

\* The text without its malformed blocks, the last match first.
RECURSIVE CutMalformed(_, _, _)
CutMalformed(text, matches, k) ==
  IF k = 0 THEN text
  ELSE LET m == matches[k]
           rest == IF Malformed(BlockOf(text, m)) THEN Cut(text, m.index, m.end)
                   ELSE text
       IN CutMalformed(rest, matches, k - 1)

WithoutMalformed(text) ==
  LET matches == MatchAll(text) IN CutMalformed(text, matches, Len(matches))

\* The response has a malformed block.
HasMalformed(text) ==
  LET matches == MatchAll(text)
  IN \E k \in 1..Len(matches) : Malformed(BlockOf(text, matches[k]))

(* C7. A malformed block never halts ingestion: a block with an unrecognized
   severity token, or one that lacks EXCERPT, CATEGORY, SEVERITY or PROBLEM,
   gives no record in any parsePartialBuffer call; the call returns the records
   it would return for the buffer without the block; and the run as a whole
   emits the records of the response without its malformed blocks. *)
MalformedNeverHalts ==
  /\ \A k \in 1..Len(LastMatches) :
       LET m == LastMatches[k]
       IN Malformed(BlockOf(last.buf, m)) =>
            /\ m.index \notin LastOrigins
            /\ k < Len(LastMatches) =>
                 ParsePartialBuffer(Cut(last.buf, m.index, m.end)).parsed = last.parsed
  /\ (pc = "done" /\ HasMalformed(stream)) => out = OneShot(WithoutMalformed(stream))

\* A call that emits the record of a block that follows a malformed one in the
\* same buffer.
MalformedNeverHaltsWitness ==
  \E k \in 1..Len(LastMatches) :
    /\ k < Len(LastMatches)
    /\ Malformed(BlockOf(last.buf, LastMatches[k]))
    /\ \E o \in LastOrigins : o > LastMatches[k].index

\* The block lacks one of the five field names.
LacksField(block) ==
  \E name \in {ExcerptName, CategoryName, SeverityName, ProblemName, FixName} :
    ~HasField(block, name)

(* C8. A block that lacks any of the five required fields (EXCERPT, CATEGORY,
   SEVERITY, PROBLEM, FIX) never yields a record from the streaming parser,
   wherever the block sits in the buffer (first, middle or last). *)
MissingFieldNeverEmitted ==
  \A k \in 1..Len(LastMatches) :
    LacksField(BlockOf(last.buf, LastMatches[k])) =>
      LastMatches[k].index \notin LastOrigins

\* What every record satisfies.
RecordOk(r) ==
  /\ r.target_excerpt # <<>>
  /\ r.category # <<>>
  /\ r.comment # <<>>
  /\ r.severity \in
       {<<"h","i","g","h">>, <<"m","o","d","e","r","a","t","e">>, <<"l","o","w">>}
  /\ r.explanation = r.comment

AllOk(records) == \A k \in 1..Len(records) : RecordOk(records[k])

(* C9. Record invariant: every record returned by parseIssueBlock,
   parseCompleteIssueBlocks or parsePartialBuffer has non-empty target_excerpt,
   category and comment, a severity that is exactly one of 'high', 'moderate',
   'low', and explanation equal to comment; rewrite may be the empty string. *)
RecordInvariant ==
  /\ AllOk(out)
  /\ AllOk(ParseCompleteIssueBlocks(SubSeq(stream, 1, pos)))
  /\ \A block \in LastBlocks :
       LET r == ParseIssueBlock(block) IN r.ok => RecordOk(r.v)

\* A finished run that emitted a record with an empty rewrite.
RecordInvariantWitness ==
  /\ pc = "done"
  /\ \E k \in 1..Len(out) : RecordOk(out[k]) /\ out[k].rewrite = <<>>

\* The last block of the latest call's buffer is incomplete.
LastBlockIncomplete == last.held >= 0

(* C10. An incomplete last block is never discarded before the stream ends:
   after every parsePartialBuffer call, the final terminator call included, an
   incomplete last block has given no record and its text from its '---'
   marker onward is contained in the returned remainder; and the block a call
   held back is a block of the next call's buffer, at the same place of the
   response, which that call emits once the block is complete (or followed by
   another block) and parses to a record. *)
IncompleteLastBlockKept ==
  /\ LastBlockIncomplete =>
       LET m == LastMatches[Len(LastMatches)]
       IN /\ m.index \notin LastOrigins
          /\ LastConsumed <= m.index
          /\ IsSuffix(SubSeq(last.buf, m.index + 1, Len(last.buf)), last.remainder)
  /\ last.prev >= 0 =>
       \E k \in 1..Len(LastMatches) :
         LET m == LastMatches[k]
             block == BlockOf(last.buf, m)
         IN /\ last.base + m.index = last.prev
            /\ ( /\ k < Len(LastMatches) \/ IsBlockComplete(block)
                 /\ ParseIssueBlock(block).ok ) => m.index \in LastOrigins

\* A call before the end of the stream emits the record of the block that the
\* call before it held back, and holds back the block that follows.
IncompleteLastBlockKeptWitness ==
  /\ ~last.final
  /\ last.prev >= 0
  /\ (last.prev - last.base) \in LastOrigins
  /\ LastBlockIncomplete

(* C11. Records are given out, and handed to addSuggestionAsDiagnostic, one at
   a time in the order of their blocks in the response: the offsets in the
   response of the blocks of the records handed over are strictly increasing,
   and the k-th diagnostic made is the one of the k-th record handed over, so no
   record of a later block is assigned before one of an earlier block. *)
Ordering ==
  /\ \A j, k \in 1..Len(emitted) : j < k => emitted[j] < emitted[k]
  /\ Len(diagnosticCollection) = Len(out)
  /\ \A k \in 1..Len(out) : diagnosticCollection[k].suggestion = out[k]

\* One call gave out the records of two blocks, and both were assigned.
OrderingWitness ==
  /\ Len(last.parsed) >= 2
  /\ Len(diagnosticCollection) = Len(out)
  /\ out[1] # out[2]

(* C13. Cancellation: once onAbort() is true, whatever the order of the abort,
   the fragments and the end of the stream, no step hands a further record to
   onSuggestion and no step runs the final parse of the buffer with the
   terminator. *)
Cancellation ==
  [][abortRequested => /\ out' = out
                       /\ last'.final => last.final]_vars

(* C14. The outcome of a review: a review in which the abort was requested
   ends with 'Review cancelled' and never with 'Review complete'; a review
   without an abort request and without a failure of the stream ends with
   'Review complete'. *)
ReviewOutcome ==
  pc # "streaming" =>
    /\ abortRequested => notice = "cancelled"
    /\ (~abortRequested /\ pc # "failed") => notice = "complete"

\* The places in the diagnostics shown of those that carry a quick-fix
\* identifier.
Fixable == {k \in 1..Len(diagnosticCollection) : diagnosticCollection[k].code # 0}

\* The diagnostic at place k is of a record found in the document, at a range
\* that intersects the range of an earlier diagnostic with an identifier.
Conflicts(k) ==
  /\ diagnosticCollection[k].range # TopOfDocument
  /\ \E j \in Fixable :
       /\ j < k
       /\ Intersects(diagnosticCollection[j].range, diagnosticCollection[k].range)

(* C12. The overlap invariant: no two diagnostics that carry a quick-fix
   identifier have intersecting ranges; the diagnostic of a located record
   whose range intersects a range committed before it is display-only (it has
   no identifier and the map of quick fixes has no entry for its record), also
   when the record's rewrite passes isQuickFixable. *)
OverlapInvariant ==
  /\ \A j, k \in Fixable :
       j # k => ~Intersects(diagnosticCollection[j].range,
                            diagnosticCollection[k].range)
  /\ \A k \in 1..Len(diagnosticCollection) :
       Conflicts(k) =>
         /\ diagnosticCollection[k].code = 0
         /\ \A id \in DOMAIN suggestionMap :
              suggestionMap[id] # diagnosticCollection[k].suggestion

\* A record with an eligible rewrite was located on a range that intersects
\* the range of an earlier quick fix, and a later record apart from both got
\* the next identifier.
OverlapInvariantWitness ==
  \E k \in 1..Len(diagnosticCollection) :
    /\ Conflicts(k)
    /\ IsQuickFixable(diagnosticCollection[k].suggestion)
    /\ \E j \in Fixable : j > k

\* The rewrite is empty or has white space only.
Blank(rewrite) == \A k \in 1..Len(rewrite) : rewrite[k] \in WhiteSpace

\* The rewrite contains ' or '.
HasOr(rewrite) ==
  \E k \in 1..Len(rewrite) :
    /\ k + 3 <= Len(rewrite)
    /\ rewrite[k] = " " /\ rewrite[k + 1] = "o"
    /\ rewrite[k + 2] = "r" /\ rewrite[k + 3] = " "

\* The category, whatever the case of its letters, is consistency, structure
\* or word_choice.
ForJudgment(category) ==
  \E name \in {<<"c","o","n","s","i","s","t","e","n","c","y">>,
               <<"s","t","r","u","c","t","u","r","e">>,
               <<"w","o","r","d","_","c","h","o","i","c","e">>} :
    /\ Len(category) = Len(name)
    /\ \A k \in 1..Len(name) : LowerChar(category[k]) = name[k]

(* C15. isQuickFixable is false exactly when the rewrite is empty or white
   space only, or contains ' or ', or is longer than 100 characters, or the
   category in lower case is consistency, structure or word_choice; it is true
   otherwise, for a rewrite of exactly 100 characters too. A suggestion that is
   found in the document, with nothing committed before it, gets a quick-fix
   identifier exactly when isQuickFixable is true. *)
QuickFixRule ==
  /\ \A k \in 1..Len(out) :
       IsQuickFixable(out[k]) <=>
         ~ \/ Blank(out[k].rewrite)
           \/ HasOr(out[k].rewrite)
           \/ Len(out[k].rewrite) > 100
           \/ ForJudgment(out[k].category)
  /\ Len(out) >= 1 =>
       (diagnosticCollection[1].code # 0 <=> IsQuickFixable(out[1]))

\* A suggestion with a rewrite of exactly 100 characters and a category that is
\* not set aside was handed over and got a quick fix.
QuickFixRuleWitness ==
  /\ Len(out) >= 1
  /\ Len(out[1].rewrite) = 100
  /\ ~ForJudgment(out[1].category)
  /\ diagnosticCollection[1].code = 1

(* C16. Sequential identifiers: within one review, whatever the records and
   the commands of the user (clearDiagnostics, removeDiagnostic), the
   identifiers given out are strictly increasing in the order they are given
   out and start at 1, in the first review and in the next; and only records
   that are found in the document, eligible and free of overlap carry one. *)
SequentialIdentifiers ==
  /\ \A j, k \in 1..Len(assignedIds) : j < k => assignedIds[j] < assignedIds[k]
  /\ Len(assignedIds) >= 1 => assignedIds[1] = 1
  /\ \A k \in Fixable :
       /\ IsQuickFixable(diagnosticCollection[k].suggestion)
       /\ ExactIndex(document, diagnosticCollection[k].suggestion.target_excerpt)
            = diagnosticCollection[k].range.start
       /\ ~Conflicts(k)

\* Neither the exact search nor findExcerptPartialMatch finds the excerpt of
\* the suggestion in the document.
Unlocated(suggestion) ==
  \/ suggestion.target_excerpt = <<>>
  \/ /\ IndexOf(document, suggestion.target_excerpt) = -1
     /\ ~FindExcerptPartialMatch(document, suggestion.target_excerpt).ok

(* C17. Location failure: a record whose excerpt is not found is still
   surfaced: the step that hands it over adds exactly one diagnostic for it, at
   the zero-length range at the start of the document, without an identifier
   and without an entry in the map of quick fixes; and the step commits one
   range per identifier it gives out, none for the unlocated record. *)
UnlocatedPinned ==
  [][Len(out') > Len(out) =>
       LET n == Len(out') - Len(out)
           before == Len(diagnosticCollection)
           new(i) == diagnosticCollection'[before + i]
       IN /\ Len(diagnosticCollection') = before + n
          /\ \A i \in 1..n :
               /\ new(i).suggestion = out'[Len(out) + i]
               /\ Unlocated(out'[Len(out) + i]) =>
                    /\ new(i).range = TopOfDocument
                    /\ new(i).code = 0
                    /\ \A id \in DOMAIN suggestionMap' :
                         suggestionMap'[id] # out'[Len(out) + i]
          /\ Len(usedRanges') - Len(usedRanges)
               = Cardinality({i \in 1..n : new(i).code # 0})
          /\ \A i \in 1..n :
               new(i).code # 0 =>
                 usedRanges'[Len(usedRanges) +
                             Cardinality({j \in 1..i : new(j).code # 0})]
                   = new(i).range]_vars

\* A record that is not found was handed over between two records that got a
\* quick fix: its diagnostic is at the start of the document, without
\* identifier.
UnlocatedPinnedWitness ==
  \E k \in 1..Len(diagnosticCollection) :
    /\ Unlocated(diagnosticCollection[k].suggestion)
    /\ diagnosticCollection[k].range = TopOfDocument
    /\ diagnosticCollection[k].code = 0
    /\ \E j \in Fixable : j < k
    /\ \E j \in Fixable : j > k

\* The span the spec's order of location gives an excerpt in the document: the
\* exact one, else the one of findExcerptPartialMatch, else none (the start of
\* the document).
SpanOf(excerpt) ==
  LET index == IndexOf(document, excerpt)
      partial == FindExcerptPartialMatch(document, excerpt)
  IN IF excerpt # <<>> /\ index # -1 THEN Range(index, index + Len(excerpt))
     ELSE IF excerpt # <<>> /\ partial.ok
          THEN Range(partial.v.index, partial.v.index + partial.v.length)
          ELSE TopOfDocument

(* C18. The order of location: the exact search first, findExcerptPartialMatch
   only when it fails, the start of the document only when both fail; so the
   diagnostic of a record whose excerpt is not an exact substring of the
   document, and for which findExcerptPartialMatch returns a span, is at that
   span. *)
LocationOrder ==
  \A k \in 1..Len(diagnosticCollection) :
    diagnosticCollection[k].range
      = SpanOf(diagnosticCollection[k].suggestion.target_excerpt)

\* The range of the exact occurrence of the suggestion's excerpt.
ExactRange(suggestion) ==
  LET index == IndexOf(document, suggestion.target_excerpt)
  IN Range(index, index + Len(suggestion.target_excerpt))

\* The excerpt of the suggestion occurs in the document.
Located(suggestion) ==
  /\ suggestion.target_excerpt # <<>>
  /\ IndexOf(document, suggestion.target_excerpt) # -1

(* C19. Overlap conflicts lose no record: a record that is found in the
   document and downgraded, because its range intersects a range committed
   before it or because its rewrite is not eligible, is still added as exactly
   one diagnostic, without identifier, at the range where it was found and not
   at the start of the document. *)
DowngradedInPlace ==
  [][Len(out') > Len(out) =>
       LET n == Len(out') - Len(out)
           before == Len(diagnosticCollection)
           new(i) == diagnosticCollection'[before + i]
           record(i) == out'[Len(out) + i]
           committed(i) ==
             {usedRanges[k] : k \in 1..Len(usedRanges)}
               \cup {new(j).range : j \in {j \in 1..(i - 1) : new(j).code # 0}}
           downgraded(i) ==
             /\ Located(record(i))
             /\ \/ ~IsQuickFixable(record(i))
                \/ \E r \in committed(i) : Intersects(r, ExactRange(record(i)))
       IN /\ Len(diagnosticCollection') = before + n
          /\ \A i \in 1..n :
               /\ new(i).suggestion = record(i)
               /\ downgraded(i) =>
                    /\ new(i).code = 0
                    /\ new(i).range = ExactRange(record(i))
                    /\ new(i).range # TopOfDocument]_vars

\* Two records were found and downgraded, one for an overlap and one for its
\* rewrite; the diagnostic of each is where the record was found.
DowngradedInPlaceWitness ==
  \E j, k \in 1..Len(diagnosticCollection) :
    /\ Conflicts(j)
    /\ IsQuickFixable(diagnosticCollection[j].suggestion)
    /\ diagnosticCollection[j].range = ExactRange(diagnosticCollection[j].suggestion)
    /\ ~Conflicts(k)
    /\ ~IsQuickFixable(diagnosticCollection[k].suggestion)
    /\ Located(diagnosticCollection[k].suggestion)
    /\ diagnosticCollection[k].range = ExactRange(diagnosticCollection[k].suggestion)
    /\ diagnosticCollection[j].code = 0
    /\ diagnosticCollection[k].code = 0

(* C20. The severity shown: every diagnostic has the severity Error for a
   record of severity high, Warning for moderate and Information for low; the
   severity Hint is never used, for diagnostics that are display-only and for
   those of unlocated records too. *)
DisplaySeverity ==
  \A k \in 1..Len(diagnosticCollection) :
    LET d == diagnosticCollection[k]
    IN /\ d.severity # "Hint"
       /\ d.suggestion.severity = <<"h","i","g","h">> => d.severity = "Error"
       /\ d.suggestion.severity = <<"m","o","d","e","r","a","t","e">>
            => d.severity = "Warning"
       /\ d.suggestion.severity = <<"l","o","w">> => d.severity = "Information"

\* The text t occurs in text at offset at.
OccursAt(text, t, at) ==
  /\ at >= 0
  /\ at + Len(t) <= Len(text)
  /\ \A k \in 1..Len(t) : text[at + k] = t[k]

\* The pairs of an occurrence of the first and an occurrence of the last anchor
\* characters of the excerpt in the text, the latter starting within 50
\* characters of where the excerpt's length puts it.
AnchorPairs(text, excerpt) ==
  LET n == Len(excerpt)
      anchor == IF n \div 4 > 50 THEN 50 ELSE n \div 4
      prefix == SubSeq(excerpt, 1, anchor)
      suffix == SubSeq(excerpt, n - anchor + 1, n)
  IN {pq \in (0..Len(text)) \X (0..Len(text)) :
        /\ OccursAt(text, prefix, pq[1])
        /\ OccursAt(text, suffix, pq[2])
        /\ pq[2] - (pq[1] + n - anchor) \in (-50)..50}

\* findExcerptPartialMatch has returned.
LocatorReturned == call.fn = "findExcerptPartialMatch" /\ call.done

(* C21. The result of the fuzzy locator: for an excerpt shorter than 20
   characters findExcerptPartialMatch returns null; otherwise, with anchor =
   min(50, floor(length / 4)), it returns null iff no occurrence of the prefix
   has an occurrence of the suffix starting within 50 characters of prefix
   index + length - anchor, and else its index is the leftmost such prefix
   occurrence and its length is the leftmost suffix start in the window of
   that occurrence, plus anchor, minus index. *)
LocatorResult ==
  LocatorReturned =>
    LET n == Len(call.excerpt)
        anchor == IF n \div 4 > 50 THEN 50 ELSE n \div 4
        pairs == AnchorPairs(call.text, call.excerpt)
    IN IF n < 20 THEN ~call.result.ok
       ELSE /\ call.result.ok <=> pairs # {}
            /\ call.result.ok =>
                 \E pq \in pairs :
                   /\ \A other \in pairs :
                        \/ pq[1] < other[1]
                        \/ pq[1] = other[1] /\ pq[2] <= other[2]
                   /\ call.result.v.index = pq[1]
                   /\ call.result.v.length = pq[2] + anchor - pq[1]

\* The locator returned a span whose length is not the excerpt's, the suffix
\* occurring twice within the window of the prefix found.
LocatorResultWitness ==
  /\ LocatorReturned
  /\ call.result.ok
  /\ call.result.v.length # Len(call.excerpt)
  /\ Cardinality(AnchorPairs(call.text, call.excerpt)) >= 2

(* C22. The result of the fuzzy locator is a valid span: whenever
   findExcerptPartialMatch returns a result that is not null, index >= 0,
   length > 0 and index + length <= text.length, so that the span can be taken
   from the text and has exactly length characters. *)
ValidSpan ==
  (LocatorReturned /\ call.result.ok) =>
    /\ call.result.v.index >= 0
    /\ call.result.v.length > 0
    /\ call.result.v.index + call.result.v.length <= Len(call.text)

\* The locator was called with the review's document and the excerpt that
\* lacks the word 'to', and has returned.
ToleranceCall ==
  /\ LocatorReturned
  /\ call.text = <<"S","h","e"," ","w","a","s"," ","t","r","y","i","n","g"," ",
                   "n","o","t"," ","t","o"," ","s","q","u","i","n","t"," ","t",
                   "o","o"," ","m","u","c","h"," ","i","n"," ","t","h","e"," ",
                   "l","i","g","h","t",".">>
  /\ call.excerpt = <<"t","r","y","i","n","g"," ","n","o","t"," ","s","q","u",
                      "i","n","t"," ","t","o","o"," ","m","u","c","h">>

(* C23. The tolerance of the fuzzy match: for the document 'She was trying not
   to squint too much in the light.' and the excerpt 'trying not squint too
   much' the locator returns a span that is not null and whose text contains
   both 'trying not' and 'squint too much'. *)
FuzzyTolerance ==
  ToleranceCall =>
    /\ call.result.ok
    /\ LET span == SubSeq(call.text, call.result.v.index + 1,
                          call.result.v.index + call.result.v.length)
       IN /\ IndexOf(span, <<"t","r","y","i","n","g"," ","n","o","t">>) # -1
          /\ IndexOf(span, <<"s","q","u","i","n","t"," ","t","o","o"," ","m",
                             "u","c","h">>) # -1

\* The call returned the span of 'trying not to squint too much'.
FuzzyToleranceWitness ==
  /\ ToleranceCall
  /\ call.result.ok
  /\ call.result.v.index = 8
  /\ call.result.v.length = 29

\* stripQuotes has returned.
StripReturned == call.fn = "stripQuotes" /\ call.done

\* parseIssueBlock has returned.
ParseReturned == call.fn = "parseIssueBlock" /\ call.done

\* The text has none of the typographic quotation marks.
Plain(text) ==
  \A k \in 1..Len(text) :
    text[k] \notin {LeftDouble, RightDouble, LeftSingle, RightSingle}

(* C24. Quote stripping is single-layer: stripQuotes removes exactly one outer
   pair (and trims what is left) when the trimmed value is longer than one
   character and begins and ends with the same straight quote, and returns the
   trimmed value unchanged otherwise; so """a""" becomes ""a"", a FIX of "she
   said "hello"" gives the rewrite she said "hello", and the quotes inside a
   value that is not quoted stay. *)
SingleLayer ==
  /\ (StripReturned /\ Plain(call.text)) =>
       LET t == Trim(call.text)
           n == Len(t)
       IN /\ call.result =
               IF n > 1 /\ t[1] = t[n] /\ t[1] \in {"\"", "'"}
               THEN Trim(SubSeq(t, 2, n - 1)) ELSE t
          /\ call.text = <<"\"","\"","\"","a","\"","\"","\"">>
               => call.result = <<"\"","\"","a","\"","\"">>
          /\ call.text = <<"h","e"," ","s","a","i","d"," ","\"","h","i","\"",
                           " ","t","w","i","c","e">>
               => call.result = call.text
  /\ (ParseReturned /\ Plain(call.excerpt) /\ call.problem = <<"p">>) =>
       /\ call.fix = <<"\"","s","h","e"," ","s","a","i","d"," ","\"","h","e",
                       "l","l","o","\"","\"">>
            => /\ call.result.ok
               /\ call.result.v.rewrite =
                    <<"s","h","e"," ","s","a","i","d"," ","\"","h","e","l",
                      "l","o","\"">>
       /\ call.fix = <<"s","a","y"," ","\"","h","i","\""," ","n","o","w">>
            => call.result.ok /\ call.result.v.rewrite = call.fix

\* stripQuotes returned a value that still begins and ends with a quote: one
\* layer of several was removed.
SingleLayerWitness ==
  /\ StripReturned
  /\ Len(call.result) > 2
  /\ call.result[1] = "\""
  /\ call.result[Len(call.result)] = "\""
  /\ Len(Trim(call.text)) = Len(call.result) + 2

\* The trimmed value is longer than one character and is wrapped in a
\* typographic pair, left mark first and right mark last.
TypographicPair(text) ==
  LET t == Trim(text)
  IN /\ Len(t) > 1
     /\ \/ t[1] = LeftDouble /\ t[Len(t)] = RightDouble
        \/ t[1] = LeftSingle /\ t[Len(t)] = RightSingle

\* The value without its first and last character, trimmed again.
Inner(text) == Trim(SubSeq(Trim(text), 2, Len(Trim(text)) - 1))

(* C25. Typographic quotes are accepted: a value wrapped in a typographic
   pair (left and right double, or left and right single curly quotes) has
   that pair stripped as a straight-quoted value has, and a block whose FIX is
   wrapped in such a pair is emitted with the unquoted text as its rewrite. *)
TypographicAccepted ==
  /\ (StripReturned /\ TypographicPair(call.text))
       => call.result = Inner(call.text)
  /\ (ParseReturned /\ TypographicPair(call.fix) /\ call.problem = <<"p">>)
       => call.result.ok /\ call.result.v.rewrite = Inner(call.fix)
  /\ (ParseReturned /\ TypographicPair(call.excerpt) /\ call.problem = <<"p">>)
       => call.result.ok /\ call.result.v.target_excerpt = Inner(call.excerpt)

\* The value has no quotation mark of either kind.
Unquoted(text) ==
  /\ Plain(text)
  /\ \A k \in 1..Len(text) : text[k] \notin {"\"", "'"}

(* C26. Field extraction is anchored at line start: a field name inside
   another field's value ('fix:' or 'suffix:' inside the PROBLEM text) neither
   truncates that value nor is taken as the start of the named field, and
   values spanning several lines are returned whole: a block written with
   unquoted, trimmed values is parsed to exactly those values. *)
LineAnchored ==
  (/\ ParseReturned
   /\ Unquoted(call.excerpt) /\ Unquoted(call.fix) /\ call.fix # <<>>)
    => /\ call.result.ok
       /\ call.result.v.target_excerpt = call.excerpt
       /\ call.result.v.explanation = call.problem
       /\ call.result.v.rewrite = call.fix

\* Both runs of the segmenter have returned.
Segmented == call.fn = "matchAll" /\ call.done

(* C27, as stated. Segmenter monotonicity: when b1 is a prefix of b2, the
   block bodies segmented from b2 begin with all the block bodies segmented
   from b1, each unchanged, followed by any new blocks. *)
SegmenterMonotone ==
  Segmented =>
    /\ Len(call.bodies1) <= Len(call.bodies2)
    /\ \A k \in 1..Len(call.bodies1) : call.bodies2[k] = call.bodies1[k]

(* C27, amended. When b1 is a prefix of b2, every block segmented from b1 but
   the last is segmented from b2 at the same place with the same body, the
   last block of b1 starts at the same marker in b2, and b2 has at least as
   many blocks; the body of the last block of b1, which ran to the end of b1,
   may differ in b2. *)
SegmenterMonotoneButLast ==
  Segmented =>
    LET n == Len(call.bodies1)
    IN /\ n <= Len(call.bodies2)
       /\ \A k \in 1..(n - 1) :
            /\ call.bodies2[k] = call.bodies1[k]
            /\ call.matches2[k] = call.matches1[k]
       /\ n > 0 => call.matches2[n].index = call.matches1[n].index

\* b1 has two blocks or more, b2 is longer, and the last body of b1 is not
\* its body in b2.
SegmenterMonotoneWitness ==
  /\ Segmented
  /\ Len(call.bodies1) >= 2
  /\ Len(call.b2) > Len(call.b1)
  /\ call.bodies2[Len(call.bodies1)] # call.bodies1[Len(call.bodies1)]
  /\ call.bodies2[1] = call.bodies1[1]

(* C28. A block body ends only at the next record marker, a "---" line
   immediately followed by an "ISSUE <n>" line, or at the end of the buffer: a
   "---" that a newline but no ISSUE line follows does not end the block. *)
BodyEndsAtMarker ==
  Segmented =>
    \A k \in 1..Len(call.matches2) :
      \/ call.matches2[k].end = Len(call.b2)
      \/ HeaderAt(call.b2, call.matches2[k].end + 1) # 0

\* The records the loop has emitted for the k-th block of the response.
RecordsOf(k) == {j \in 1..Len(out) : out[j].target_excerpt = <<ExcerptOf[k]>>}

\* The text has a hyphen, the character of the record marker and of the
\* terminator.
HasHyphen(text) == \E j \in 1..Len(text) : text[j] = "-"

(* C29. Empty FIX through the stream: a well-formed block whose FIX value is
   empty yields exactly one record with rewrite '' from the streaming loop,
   for every fragmentation, when another block follows it and when it is the
   last block (by the final call with the terminator appended); no emitted
   field has characters of a record marker or of the terminator. *)
EmptyFixStreamed ==
  (pc = "done" /\ \A k \in 1..Len(script) : script[k] \in WellFormedKinds) =>
    /\ \A k \in 1..Len(script) :
         script[k] = "emptyFix" =>
           /\ Cardinality(RecordsOf(k)) = 1
           /\ \A j \in RecordsOf(k) : out[j].rewrite = <<>>
    /\ \A j \in 1..Len(out) :
         /\ ~HasHyphen(out[j].rewrite)
         /\ ~HasHyphen(out[j].explanation)
         /\ ~HasHyphen(out[j].target_excerpt)
         /\ ~HasHyphen(out[j].category)

(* C30. Remainder boundary: whenever parsePartialBuffer holds back the last
   block as incomplete, the remainder it returns is the buffer from that
   block's "---" marker onward, and when every block was consumed (here:
   every block gave a record) the remainder is the empty string; text before
   the first unconsumed block is never kept. *)
RemainderBoundary ==
  /\ LastBlockIncomplete =>
       last.remainder =
         SubSeq(last.buf, LastMatches[Len(LastMatches)].index + 1,
                Len(last.buf))
  /\ (LastMatches # <<>> /\ Len(last.parsed) = Len(LastMatches)) =>
       last.remainder = <<>>

\* The value, trimmed, begins with a quote character, straight or typographic.
BeginsWithQuote(text) ==
  /\ Trim(text) # <<>>
  /\ Trim(text)[1] \in {"\"", "'", LeftDouble, RightDouble, LeftSingle,
                        RightSingle}

(* C31. Completeness of unquoted and missing fields: isBlockComplete is false
   for every block that lacks one of the names EXCERPT:, CATEGORY:, SEVERITY:,
   PROBLEM:, FIX:, and true for every block that has all five and whose FIX
   value is non-empty after trimming and does not begin with a quote
   character. *)
UnquotedFixComplete ==
  ParseReturned =>
    /\ LacksField(call.block) => ~call.complete
    /\ (/\ ~LacksField(call.block)
        /\ Trim(call.fix) # <<>>
        /\ ~BeginsWithQuote(call.fix)) => call.complete

\* parsePartialBuffer has returned.
BufferParsed == call.fn = "parsePartialBuffer" /\ call.done

\* The text without its decimal digits.
NoDigits(text) == SelectSeq(text, LAMBDA c : c \notin Digits)

(* C32. Ordinals are informational only: with the ordinals of the ISSUE lines
   changed (out of order, duplicated, other values) parsePartialBuffer returns
   the same records in the same order as with the ordinals in order, and its
   remainder starts at the same block: the two remainders differ in their
   ordinals only. *)
OrdinalsInformational ==
  BufferParsed =>
    /\ call.result.parsed = call.reference.parsed
    /\ NoDigits(call.result.remainder) = NoDigits(call.reference.remainder)

\* The ordinals differ from those in order, records were returned and a block
\* was held back.
OrdinalsInformationalWitness ==
  /\ BufferParsed
  /\ call.buffer # call.inOrder
  /\ Len(call.buffer) > Len(call.inOrder)
  /\ call.result.parsed # <<>>
  /\ call.result.remainder # <<>>

(* C34. One-shot parsers agree: for a complete response text,
   parseCompleteIssueBlocks(text) returns the same ordered list of records as
   a single parsePartialBuffer(text) call. *)
OneShotParsersAgree ==
  (call.fn = "parseCompleteIssueBlocks" /\ call.done /\ call.cut = 0)
    => call.result = call.partial.parsed

\* The excerpt of the call occurs verbatim in its text.
Verbatim == IndexOf(call.text, call.excerpt) # -1

(* C37. The fuzzy locator subsumes exact matches: if an excerpt of at least
   20 characters occurs verbatim in the text, findExcerptPartialMatch returns
   a span (not null) that starts at or before the first verbatim occurrence
   of the excerpt. *)
SubsumesExact ==
  (LocatorReturned /\ Len(call.excerpt) >= MinPartialLength /\ Verbatim) =>
    /\ call.result.ok
    /\ call.result.v.index <= IndexOf(call.text, call.excerpt)

\* The excerpt occurs verbatim after an occurrence of its prefix that no
\* suffix follows, and the span returned starts at the verbatim occurrence.
SubsumesExactWitness ==
  /\ LocatorReturned
  /\ Len(call.excerpt) >= MinPartialLength
  /\ Verbatim
  /\ IndexOf(call.text, SubSeq(call.excerpt, 1, 5))
       < IndexOf(call.text, call.excerpt)
  /\ call.result.ok
  /\ call.result.v.index = IndexOf(call.text, call.excerpt)

\* The call of the search loop has returned.
LoopReturned == call.fn = "findExcerptPartialMatch" /\ call.done

\* An iteration tries an occurrence of the prefix that lies after every
\* occurrence tried before.
VisitsNext ==
  /\ Len(call'.visited) <= Len(call.visited) + 1
  /\ SubSeq(call'.visited, 1, Len(call.visited)) = call.visited
  /\ \A k \in 1..Len(call.visited) :
       Len(call'.visited) > Len(call.visited) =>
         call.visited[k] < call'.visited[Len(call'.visited)]

(* C38. findExcerptPartialMatch terminates for every text and excerpt: its
   search loop visits each occurrence of the prefix at most once, in strictly
   increasing position, and ends by returning a span or null (the value the
   function is defined to return). *)
LocatorTerminates ==
  /\ <>LoopReturned
  /\ [][VisitsNext]_vars
  /\ [](LoopReturned =>
          call.result = FindExcerptPartialMatch(call.text, call.excerpt))

\* The loop has returned a span after an occurrence of the prefix that had no
\* suffix in its window.
LocatorTerminatesWitness ==
  /\ LoopReturned
  /\ Len(call.visited) >= 2
  /\ call.result.ok

\* The ranges of the diagnostics with an identifier among those the step adds
\* from place k on, in order.
RECURSIVE CommittedFrom(_, _)
CommittedFrom(diagnostics, k) ==
  IF k > Len(diagnostics) THEN <<>>
  ELSE (IF diagnostics[k].code # 0 THEN <<diagnostics[k].range>> ELSE <<>>)
       \o CommittedFrom(diagnostics, k + 1)

\* The step adds diagnostics to the ones there are.
AddsDiagnostics ==
  /\ Len(diagnosticCollection') > Len(diagnosticCollection)
  /\ SubSeq(diagnosticCollection', 1, Len(diagnosticCollection))
       = diagnosticCollection

(* C33. Display-only assignments leave the policy state unchanged: a step
   that assigns records commits exactly the ranges of, counts exactly, and
   maps exactly the records that get an identifier; a display-only record
   (rewrite not eligible, overlap, or not found) adds nothing to the committed
   ranges, the map of quick fixes or the counter, so an eligible record that
   is found is downgraded only when its range intersects a committed range,
   never because of a display-only record. *)
DisplayOnlyFrame ==
  [][AddsDiagnostics =>
       LET before == Len(diagnosticCollection)
           committed == CommittedFrom(diagnosticCollection', before + 1)
       IN /\ usedRanges' = usedRanges \o committed
          /\ diagnosticCounter' = diagnosticCounter + Len(committed)
          /\ DOMAIN suggestionMap' =
               DOMAIN suggestionMap
                 \cup {diagnosticCollection'[k].code :
                         k \in {j \in (before + 1)..Len(diagnosticCollection') :
                                  diagnosticCollection'[j].code # 0}}
          /\ committed = <<>> =>
               UNCHANGED <<usedRanges, suggestionMap, diagnosticCounter>>
          /\ \A k \in (before + 1)..Len(diagnosticCollection') :
               LET d == diagnosticCollection'[k]
               IN (/\ Located(d.suggestion)
                   /\ IsQuickFixable(d.suggestion)
                   /\ d.code = 0) =>
                    \E j \in 1..Len(usedRanges') :
                      Intersects(usedRanges'[j], ExactRange(d.suggestion))
     ]_vars

\* A display-only diagnostic of a record that was found is followed by a
\* diagnostic with an identifier whose range intersects its range.
DisplayOnlyFrameWitness ==
  \E k \in 1..Len(diagnosticCollection) :
    /\ diagnosticCollection[k].code = 0
    /\ diagnosticCollection[k].range # TopOfDocument
    /\ \E j \in Fixable :
         /\ j > k
         /\ Intersects(diagnosticCollection[j].range,
                       diagnosticCollection[k].range)

\* The places of the diagnostics that carry the identifier.
Carrying(code) ==
  {k \in 1..Len(diagnosticCollection) : diagnosticCollection[k].code = code}

(* C36. removeDiagnostic(uri, id) removes exactly the entry of the map of
   quick fixes for the id and the one diagnostic that carries the id; every
   other diagnostic (in its place), every other entry of the map, the
   committed ranges and the counter are unchanged, so the range of the
   applied fix stays committed. *)
RemovalFrame ==
  [][\A code \in 1..diagnosticCounter :
       RemoveDiagnostic(code) =>
         /\ Cardinality(Carrying(code)) = 1
         /\ \A k \in Carrying(code) :
              /\ diagnosticCollection' =
                   SubSeq(diagnosticCollection, 1, k - 1)
                     \o SubSeq(diagnosticCollection, k + 1,
                               Len(diagnosticCollection))
              /\ \E j \in 1..Len(usedRanges') :
                   usedRanges'[j] = diagnosticCollection[k].range
         /\ DOMAIN suggestionMap' = DOMAIN suggestionMap \ {code}
         /\ \A id \in DOMAIN suggestionMap' :
              suggestionMap'[id] = suggestionMap[id]
         /\ UNCHANGED <<usedRanges, diagnosticCounter>>
     ]_vars

\* A quick fix was removed while a display-only diagnostic and another quick
\* fix are shown: its identifier is below the counter and not in the map.
RemovalFrameWitness ==
  /\ \E id \in 1..diagnosticCounter : id \notin DOMAIN suggestionMap
  /\ Len(usedRanges) = diagnosticCounter
  /\ Fixable # {}
  /\ \E k \in 1..Len(diagnosticCollection) : diagnosticCollection[k].code = 0

\* A step of the loop of the earlier review, after a new review has started.
EarlierStep ==
  /\ call.fn = "framerd.review"
  /\ pos' # pos \/ pc' # pc

(* C35. Reviews do not interleave: once a new review has started (state
   cleared, abort flag reset), no record of an earlier review's stream is
   added to the diagnostics, the map of quick fixes or the committed ranges,
   and an abort requested for the earlier review is not cancelled by the
   start of the new one: the earlier review's next step is its abort. *)
NoInterleaving ==
  [][EarlierStep =>
       /\ UNCHANGED <<diagnosticCollection, suggestionMap, usedRanges>>
       /\ call.abortWanted => pc' = "aborted"
     ]_vars

====
